---------------------------- MODULE Spec2Model ----------------------------
(***************************************************************************)
(* A model of the Backyard Rain card (backyard_rain/src/main.rs) and of    *)
(* its fixed-point value type (wscomp/src/lib.rs).                         *)
(*                                                                         *)
(* The module holds several specifications over one set of variables:      *)
(*   SpecSignal  the value type's pure functions applied to drawn inputs   *)
(*   SpecOps     the value type's functions applied one after another      *)
(*   SpecMix     the mixer's crossfade applied to drawn samples            *)
(*   SpecStream  one adpcm_to_stream iterator pulled sample by sample      *)
(*   SpecMux     input_loop alone, with varied ADC readings                *)
(*   SpecSnap    input_loop with logic_loop and periodic_stats, the        *)
(*               receivers of MUX_INPUT                                    *)
(*   SpecChain   input_loop, logic_loop, mixer_loop and sample_write_loop: *)
(*               the chain mux -> logic -> mixer                           *)
(*   SpecWatch   the Core A tasks around the MUX_INPUT and INTENSITY       *)
(*               Watch cells and their receivers                           *)
(*   SpecOut     mixer_loop and sample_write_loop, with failing DAC writes *)
(*   SpecWriter  sample_write_loop alone over more than a second of passes *)
(*   SpecRamp    the audio path over more than 256 passes of mixer_loop     *)
(*   SpecFatal   logic_loop, mixer_loop and sample_write_loop over assets   *)
(*               holding blocks that do not decode                         *)
(*   SpecLive    the tasks of both cores running without end, with the     *)
(*               fairness the two executors give                           *)
(*   Spec        the tasks of both cores around the Watch cells and the    *)
(*               AUDIO_OUT_SAMPLES channel                                 *)
(* Every specification fixes the variables it does not use.                *)
(*                                                                         *)
(* Integers: every accumulator the model builds stays far inside i32, so   *)
(* the i32 operations are modelled by exact integer arithmetic.            *)
(***************************************************************************)
EXTENDS Integers, Sequences, FiniteSets, TLC

VARIABLES
    sig,        \* SpecSignal: one application of a value-type function
    mixin,      \* SpecMix: one application of the crossfade
    strm,       \* SpecStream: one adpcm_to_stream iterator and what it gave
    input,      \* input_loop: position and its local mux_state
    mux_input,  \* MUX_INPUT   Watch cell: [data, current_id]
    intensity,  \* INTENSITY   Watch cell: [data, current_id]
    at_id,      \* each receiver's at_id (what it has seen)
    logic,      \* logic_loop position
    mixer,      \* mixer_loop: position, streams, saw_value, pending pair
    queue,      \* AUDIO_OUT_SAMPLES: the pairs in the channel, oldest first
    writer,     \* sample_write_loop: position, local_counter, pair in hand
    reader,     \* update_leds_loop / periodic_stats: positions
    audio_freq_counter, \* AUDIO_FREQ_COUNTER
    audio_max_ticks,    \* AUDIO_MAX_TICKS
    hist        \* history (ghost): what was sent, received, polled

vars == <<sig, mixin, strm, input, mux_input, intensity, at_id, logic, mixer,
          queue, writer, reader, audio_freq_counter, audio_max_ticks, hist>>

(***************************************************************************)
(* Integer helpers of the Rust operations used by the code.                *)
(***************************************************************************)
Pow2(n) == 2 ^ n

\* `x >> n` on a signed integer: arithmetic shift, rounding towards -infinity.
shr(x, n) == x \div Pow2(n)

\* `x << n` (no bits are lost for the values built here).
shl(x, n) == x * Pow2(n)

Abs(x) == IF x < 0 THEN -x ELSE x

\* `a / b` on i32: truncates towards zero.
trunc_div(a, b) ==
    IF (a >= 0) = (b > 0) THEN Abs(a) \div Abs(b) ELSE -(Abs(a) \div Abs(b))

\* `x as u16`
as_u16(x) == x % 65536

clamp(x, lo, hi) == IF x < lo THEN lo ELSE IF x > hi THEN hi ELSE x

(***************************************************************************)
(* wscomp::InputValue (the card names it Sample).                          *)
(***************************************************************************)
MIN == -(2 ^ 11)
MAX == 2 ^ 11 - 1
CENTER == 0
OFFSET == 2 ^ 11
ACCUM_BITS == 4

InputValue(acc, inv) == [accumulated_raw |-> acc, inverted_source |-> inv]

new(raw_value, invert) ==
    InputValue(IF invert THEN shl(-raw_value, ACCUM_BITS)
                         ELSE shl(raw_value, ACCUM_BITS),
               invert)

from_u16_no_offset(value, invert) == new(value, invert)

from_u16(value, invert) == new(value - OFFSET, invert)

\* `value -= value` on an inverted source leaves 0.
update(self, value) ==
    LET v1 == value - OFFSET
        v2 == IF self.inverted_source THEN v1 - v1 ELSE v1
    IN  [self EXCEPT !.accumulated_raw = shl(v2, ACCUM_BITS)]

to_clamped_unclamped(self) == shr(self.accumulated_raw, ACCUM_BITS)

to_clamped(self) == clamp(shr(self.accumulated_raw, ACCUM_BITS), MIN, MAX)

to_output(self) == as_u16(shr(to_clamped(self) + OFFSET, 1))

\* 2047_u16.saturating_sub(x)
to_output_inverted(self) ==
    IF to_output(self) > 2047 THEN 0 ELSE 2047 - to_output(self)

sub(self, rhs) ==
    [self EXCEPT !.accumulated_raw = self.accumulated_raw - rhs.accumulated_raw]

mul(self, rhs) ==
    [self EXCEPT !.accumulated_raw =
        shl(shr(self.accumulated_raw, ACCUM_BITS)
              * shr(rhs.accumulated_raw, ACCUM_BITS), ACCUM_BITS)]

mul_i32_keep_margin(self, rhs) ==
    [self EXCEPT !.accumulated_raw = shl(self.accumulated_raw * rhs, ACCUM_BITS)]

mul_i32(self, rhs) ==
    [self EXCEPT !.accumulated_raw =
        shl(shr(self.accumulated_raw, ACCUM_BITS) * rhs, ACCUM_BITS)]

div_i32_on_accumulator(self, rhs) ==
    [self EXCEPT !.accumulated_raw = trunc_div(self.accumulated_raw, rhs)]

div_i32(self, rhs) ==
    [self EXCEPT !.accumulated_raw =
        shl(trunc_div(shr(self.accumulated_raw, ACCUM_BITS), rhs), ACCUM_BITS)]


(***************************************************************************)
(* Methods of the card's Sample type that main.rs calls and lib.rs does   *)
(* not define; they follow the design document's section on the            *)
(* fixed-point type.                                                       *)
(***************************************************************************)
\* Sample::from(v) for an i16 or i32: the value as given, not inverted.
sample_from(v) == new(v, FALSE)

sample_add(self, rhs) ==
    [self EXCEPT !.accumulated_raw = self.accumulated_raw + rhs.accumulated_raw]

sample_abs(self) ==
    [self EXCEPT !.accumulated_raw = Abs(self.accumulated_raw)]

\* `a >= b` on Samples
sample_ge(a, b) == a.accumulated_raw >= b.accumulated_raw

\* the weight `intensity` over the positive half-range
scale(self, weight) == div_i32(mul(self, weight), MAX)

\* the weight (max - intensity) over the positive half-range
scale_inverted(self, weight) ==
    div_i32(mul(self, sub(new(MAX, FALSE), weight)), MAX)

(***************************************************************************)
(* Option<T>: None is the empty sequence, Some(v) the sequence <<v>>.      *)
(***************************************************************************)
None == << >>
Some(v) == << v >>
IsSome(o) == Len(o) = 1

(***************************************************************************)
(* mixer_loop: one sample of each stream and the crossfade.                *)
(***************************************************************************)
\* `light >>= 4; Sample::from(light)`
downsample(pcm) == sample_from(shr(pcm, 4))

mixed_swapped(light, medium, heavy, got) ==
    IF ~IsSome(got) THEN medium
    ELSE LET i == got[1] IN
         IF sample_ge(i, sample_from(0))
         THEN sample_add(scale_inverted(medium, i), scale(light, i))
         ELSE sample_add(scale_inverted(medium, sample_abs(i)),
                         scale(heavy, sample_abs(i)))

\* `got` is what intensity_rcv.try_get() returned on this tick
mixed(light, medium, heavy, got) ==
    IF ~IsSome(got) THEN medium
    ELSE LET i == got[1] IN
         IF sample_ge(i, sample_from(0))
         THEN sample_add(scale_inverted(medium, i), scale(heavy, i))
         ELSE sample_add(scale_inverted(medium, sample_abs(i)),
                         scale(light, sample_abs(i)))

next_saw_wrap_at_2040(saw_value) == IF saw_value + 8 > 2039 THEN 0 ELSE saw_value + 8

\* saw_value += 8; if saw_value > 2047 { saw_value = 0 }
next_saw(saw_value) == IF saw_value + 8 > 2047 THEN 0 ELSE saw_value + 8

\* DACSamplePair::new: `s << 4 >> 4` on a u16 keeps the low 12 bits
CONFIG1 == 4096
CONFIG2 == 36864
DACSamplePair_new_unmasked(sample1, sample2) ==
    [audio1 |-> as_u16(sample1 + CONFIG1), audio2 |-> as_u16(sample2 + CONFIG2)]

DACSamplePair_new(sample1, sample2) ==
    [audio1 |-> (as_u16(sample1 * 16) \div 16) + CONFIG1,
     audio2 |-> (as_u16(sample2 * 16) \div 16) + CONFIG2]

(***************************************************************************)
(* adpcm_to_stream: data.chunks_exact(BLOCK_SIZE).cycle()                  *)
(*                      .flat_map(decode).skip(sample_offset)              *)
(* BLOCK_SIZE is 1024 in the code; the model runs on a small block and     *)
(* keeps the buffer length 2 * BLOCK_SIZE - 7.  The WAV payloads and the   *)
(* decoder crate are not part of the sources: an asset is a byte string    *)
(* given by asset_byte, and decode is a fixed function of one block.       *)
(***************************************************************************)
BLOCK_SIZE == 5

\* [0_i16; 2 * BLOCK_SIZE - 7]
SamplesPerBlock == 2 * BLOCK_SIZE - 7

asset_byte(asset, i) == (i * 37 + asset * 101) % 256

asset_data(asset, nbytes) == [i \in 1..nbytes |-> asset_byte(asset, i)]

\* data.chunks_exact(BLOCK_SIZE): the full blocks only
chunks_exact(data) ==
    [k \in 1..(Len(data) \div BLOCK_SIZE) |->
        SubSeq(data, (k - 1) * BLOCK_SIZE + 1, k * BLOCK_SIZE)]

to_i16(x) == IF x >= 32768 THEN x - 65536 ELSE x

\* decode_adpcm_ima_ms(data, false, &mut buffer).unwrap(): called afresh on
\* every block, so the buffer it fills is a function of that block alone.
\* The function chosen here takes the first sample from two bytes and the
\* others from 4-bit halves of the bytes that follow.
decode(block) ==
    [n \in 1..SamplesPerBlock |->
        IF n = 1 THEN to_i16(block[1] + 256 * block[2])
        ELSE LET byte == block[4 + (n \div 2)]
                 nibble == IF n % 2 = 0 THEN byte % 16 ELSE byte \div 16
             IN  (nibble - 8) * 4096 + block[3]]

adpcm_to_stream_no_skip(data, sample_offset) ==
    [chunks |-> chunks_exact(data), chunk |-> 0, buf |-> << >>, pos |-> 0,
     skip |-> 0, decodes |-> 0]

\* A stream before its first next(): nothing decoded, sample_offset to skip.
adpcm_to_stream(data, sample_offset) ==
    [chunks |-> chunks_exact(data), chunk |-> 0, buf |-> << >>, pos |-> 0,
     skip |-> sample_offset, decodes |-> 0]

cycle_from_second(st) ==
    IF st.chunk < Len(st.chunks) THEN st.chunk + 1
    ELSE IF Len(st.chunks) > 1 THEN 2 ELSE 1

\* cycle(): after the last chunk comes the first again
cycle_next(st) == IF st.chunk < Len(st.chunks) THEN st.chunk + 1 ELSE 1

\* flat_map(..).next(): the next sample of the current block, decoding the
\* next block when the current one is used up.  Gives the stream after it;
\* the sample is buf[pos] of the result.
flat_map_next(st) ==
    IF st.pos < Len(st.buf)
    THEN [st EXCEPT !.pos = st.pos + 1]
    ELSE [st EXCEPT !.chunk = cycle_next(st),
                    !.buf = decode(st.chunks[cycle_next(st)]),
                    !.pos = 1,
                    !.decodes = st.decodes + 1]

\* n calls of flat_map(..).next() in a row (what skip's nth does), n > 0:
\* the samples are counted from the start of the current pass over the
\* chunks, and the block holding the last one dropped is the one left decoded
advance(st, n) ==
    LET done == IF st.chunk = 0 THEN 0
                ELSE (st.chunk - 1) * SamplesPerBlock + st.pos
        last == done + n
        block == (last - 1) \div SamplesPerBlock
        decoded == IF st.chunk = 0 THEN block + 1 ELSE block - (st.chunk - 1)
        chunk == (block % Len(st.chunks)) + 1
    IN  [st EXCEPT !.chunk = chunk,
                   !.buf = IF decoded > 0 THEN decode(st.chunks[chunk]) ELSE @,
                   !.pos = ((last - 1) % SamplesPerBlock) + 1,
                   !.decodes = @ + decoded]

\* skip(n).next(): the first call drops n samples, then every call gives one.
\* decodes counts the blocks decoded by this call.
stream_next(st) ==
    LET st0 == [st EXCEPT !.decodes = 0]
    IN  IF st0.skip > 0
        THEN flat_map_next(advance([st0 EXCEPT !.skip = 0], st0.skip))
        ELSE flat_map_next(st0)

stream_value(st) == st.buf[st.pos]

\* the chunks (by index) that this call of next() hands to the decoder: the
\* first call of a stream with an offset decodes every block up to the one
\* its first sample is in, a later call the next block when the current one
\* is used up
decoded_by_next(st) ==
    IF st.skip > 0
    THEN {(b % Len(st.chunks)) + 1 : b \in 0..(st.skip \div SamplesPerBlock)}
    ELSE IF st.pos < Len(st.buf) THEN {} ELSE {cycle_next(st)}

unwrap_never_panics(st, bad) == FALSE

\* decode_adpcm_ima_ms(..).unwrap(): the decoder gives Err on a block it
\* cannot decode and unwrap() panics on it; bad is the set of chunks of the
\* stream's asset that are such blocks
unwrap_panics(st, bad) == decoded_by_next(st) \cap bad # {}

(***************************************************************************)
(* embassy_sync::watch::Watch as the card uses it: sender().send(v) and    *)
(* anon_receiver().try_get().  The cell holds the last value sent and a    *)
(* count of sends; a receiver holds the count it last saw (at_id).         *)
(* try_get gives the cell's value whether or not the receiver has seen     *)
(* it, and None only while nothing was ever sent; it marks the value seen. *)
(***************************************************************************)
Watch_new == [data |-> None, current_id |-> 0]

watch_send_keep_first(w, val) ==
    [data |-> IF IsSome(w.data) THEN w.data ELSE Some(val),
     current_id |-> w.current_id + 1]

\* sender.send(val)
watch_send(w, val) == [data |-> Some(val), current_id |-> w.current_id + 1]

\* what try_changed would give: the value only if not seen yet
watch_try_changed(w, id) == IF w.current_id > id THEN w.data ELSE None

watch_try_get_live(w, id) == Some(input.mux_state)

\* receiver.try_get(): the value it gives
watch_try_get(w, id) == w.data

\* receiver.try_get(): the receiver's at_id after it
watch_seen(w, id) == w.current_id

MuxReaders == {"logic", "stats"}
IntensityReaders == {"mixer", "leds"}
Readers == MuxReaders \cup IntensityReaders

(***************************************************************************)
(* embassy_sync::channel::Channel<_, DACSamplePair, N> as the card uses    *)
(* it: send(pair).await and receive().await.  N is 1024 in the code        *)
(* (AUDIO_OUT_SAMPLES); the model runs it with a small capacity.           *)
(***************************************************************************)
QueueCap == 2

channel_has_room_always(q) == TRUE

\* send completes at once when there is room, and suspends otherwise
channel_has_room(q) == Len(q) < QueueCap

channel_push(q, pair) == Append(q, pair)

channel_pop_newest(q) == [item |-> q[Len(q)], rest |-> SubSeq(q, 1, Len(q) - 1)]

\* receive completes at once when the channel holds a pair
channel_pop(q) == [item |-> Head(q), rest |-> Tail(q)]

(***************************************************************************)
(* ZSwitch and MuxState                                                    *)
(***************************************************************************)
ZSwitch_default == "Off"

zswitch_of_loose(level) ==
    IF level <= 1000 THEN "Momentary" ELSE IF level >= 3000 THEN "On" ELSE "Off"

zswitch_of(level) ==
    IF level < 1000 THEN "Momentary" ELSE IF level > 3000 THEN "On" ELSE "Off"

MuxState_default ==
    [main_knob |-> new(CENTER, FALSE),
     x_knob |-> new(CENTER, FALSE),
     y_knob |-> new(CENTER, FALSE),
     zswitch |-> ZSwitch_default,
     cv1 |-> [raw |-> new(CENTER, TRUE), probe |-> new(CENTER, TRUE)],
     cv2 |-> [raw |-> new(CENTER, TRUE), probe |-> new(CENTER, TRUE)],
     sequence_counter |-> 0]

(***************************************************************************)
(* History variables' updates: what was published to a cell, and what a    *)
(* receiver's poll gave.  fresh[r] says a value was published to r's cell  *)
(* since r last polled it.                                                 *)
(***************************************************************************)
\* a poll: was a value published since this receiver's poll before it
\* (fresh), did it give a value (some), was that the last one published
\* (exact)
NoPoll == [polled |-> FALSE, fresh |-> FALSE, some |-> FALSE, exact |-> FALSE]
NoPair == [audio1 |-> 0, audio2 |-> 0]
\* the last pass of mixer_loop: what its poll gave, its three samples, its
\* mix and the pair it built
NoMix == [ticked |-> FALSE, got |-> None, stale |-> FALSE, before |-> None,
          l |-> new(0, FALSE), m |-> new(0, FALSE), h |-> new(0, FALSE),
          out |-> new(0, FALSE), pair |-> NoPair]
\* the last pass of logic_loop: was an aggregate published since the pass
\* before (fresh), what INTENSITY held before the pass, what the pass sent
NoLogic == [ticked |-> FALSE, fresh |-> FALSE, before |-> None, sent |-> None]
\* the sequence numbers of the last two aggregates a receiver obtained;
\* for the mixer (origins), of the aggregates behind the last two
\* intensities it obtained, origin being the sequence number behind the
\* value INTENSITY holds (0 for the initial Signal 0)
NoSeqs == [prev |-> None, last |-> None]
NoPass == [ticked |-> FALSE, diff |-> 0, ok1 |-> TRUE, ok2 |-> TRUE,
           since_reset |-> 0, peak |-> 0, failed_passes |-> 0]
Hist0 ==
    [sent |-> << >>, received |-> << >>,
     latest |-> [c \in {"mux", "intensity"} |-> None],
     fresh |-> [r \in Readers |-> FALSE],
     poll |-> [r \in Readers |-> NoPoll],
     seen |-> None,
     mix |-> NoMix,
     ramp |-> << >>,
     cycle_start |-> MuxState_default,
     published |-> {},
     got_mux |-> [r \in MuxReaders |-> None],
     during |-> [r \in MuxReaders |-> FALSE],
     logic |-> NoLogic,
     seqs |-> [r \in MuxReaders |-> NoSeqs],
     origin |-> 0,
     origins |-> NoSeqs,
     out |-> NoPass]

\* published: the aggregates sent to MUX_INPUT so far
Published(h, cell, val, readers) ==
    [h EXCEPT !.latest[cell] = Some(val),
              !.fresh = [r \in Readers |-> IF r \in readers THEN TRUE ELSE @[r]],
              !.published = IF cell = "mux" THEN @ \cup {val} ELSE @]

\* got_mux[r]: what r's last poll of MUX_INPUT gave; during[r]: input_loop
\* was suspended inside a pass when r polled
Polled(h, r, got, cell) ==
    [h EXCEPT !.poll[r] = [polled |-> TRUE, fresh |-> h.fresh[r],
                           some |-> IsSome(got),
                           exact |-> got = h.latest[cell]],
              !.fresh[r] = FALSE,
              !.got_mux = IF cell = "mux" THEN [@ EXCEPT ![r] = got] ELSE @,
              !.during = IF cell = "mux" THEN [@ EXCEPT ![r] = (input.pc # 16)]
                         ELSE @,
              !.seqs = IF cell = "mux" /\ IsSome(got)
                       THEN [@ EXCEPT ![r] = [prev |-> @.last,
                                              last |-> Some(got[1].sequence_counter)]]
                       ELSE @,
              !.origins = IF r = "mixer" /\ IsSome(got)
                          THEN [prev |-> @.last, last |-> Some(h.origin)]
                          ELSE @]

PureIdle == UNCHANGED <<sig, mixin, strm>>

\* Core A runs its tasks cooperatively: while mixer_loop is between two
\* suspensions, no other task of that core runs; after a panic (panic_probe
\* stops the core) none runs any more.
CoreAFreeBeforeMixerOnly == mixer.pc = "spawned"
CoreAFree == mixer.pc \notin {"run", "panicked"}

(***************************************************************************)
(* input_loop.  pc is the await the task is suspended at, numbered in      *)
(* source order within one pass of the loop; 16 is ticker.next().          *)
(*   0 settle | 1 read Main | 2 read CV1 | 3 probe settle | 4 read CV1     *)
(*   5 probe settle | 6 settle | 7 read X | 8 read CV2 | 9 probe settle    *)
(*   10 read CV2 | 11 probe settle | 12 settle | 13 read Y | 14 settle     *)
(*   15 read Z | 16 ticker                                                 *)
(* a, b and probe are the levels of muxlogic_a, muxlogic_b and the probe   *)
(* pin (TRUE high).  reads and failed record this pass's conversions.      *)
(***************************************************************************)
MaxCycles == 2
PipeCycles == 1

Channels == {"main", "cv1_raw", "cv1_probe", "x", "cv2_raw", "cv2_probe", "y", "z"}
ReadAt == [p \in {1, 2, 4, 7, 8, 10, 13, 15} |->
             CASE p = 1 -> "main" [] p = 2 -> "cv1_raw" [] p = 4 -> "cv1_probe"
               [] p = 7 -> "x" [] p = 8 -> "cv2_raw" [] p = 10 -> "cv2_probe"
               [] p = 13 -> "y" [] p = 15 -> "z"]
TimerAt == {0, 3, 5, 6, 9, 11, 12, 14}

NoReads == [c \in Channels |-> None]

Input0 ==
    [pc |-> 16, mux_state |-> MuxState_default,
     a |-> FALSE, b |-> FALSE, probe |-> FALSE,
     reads |-> NoReads, failed |-> {}]

\* the Ok(level) arm of the match on one conversion
apply_reading(ms, ch, level) ==
    CASE ch = "main" -> [ms EXCEPT !.main_knob = update(@, level)]
      [] ch = "cv1_raw" -> [ms EXCEPT !.cv1.raw = update(@, level)]
      [] ch = "cv1_probe" -> [ms EXCEPT !.cv1.probe = update(@, level)]
      [] ch = "x" -> [ms EXCEPT !.x_knob = update(@, level)]
      [] ch = "cv2_raw" -> [ms EXCEPT !.cv2.raw = update(@, level)]
      [] ch = "cv2_probe" -> [ms EXCEPT !.cv2.probe = update(@, level)]
      [] ch = "y" -> [ms EXCEPT !.y_knob = update(@, level)]
      [] ch = "z" -> [ms EXCEPT !.zswitch = zswitch_of(level)]

\* a sub-field of the aggregate, named by the conversion that refreshes it
mux_field(ms, ch) ==
    CASE ch = "main" -> ms.main_knob
      [] ch = "cv1_raw" -> ms.cv1.raw
      [] ch = "cv1_probe" -> ms.cv1.probe
      [] ch = "x" -> ms.x_knob
      [] ch = "cv2_raw" -> ms.cv2.raw
      [] ch = "cv2_probe" -> ms.cv2.probe
      [] ch = "y" -> ms.y_knob
      [] ch = "z" -> ms.zswitch

read_result_zero_on_err(ms, ch, res) ==
    IF IsSome(res) THEN apply_reading(ms, ch, res[1]) ELSE apply_reading(ms, ch, 0)

\* match adc_device.read(..).await { Ok(level) => .., Err(e) => error!(..) }
read_result(ms, ch, res) ==
    IF IsSome(res) THEN apply_reading(ms, ch, res[1]) ELSE ms

\* the top of the loop, up to the first settle delay
InputCycleStart(cycles) ==
    /\ CoreAFree
    /\ input.pc = 16
    /\ input.mux_state.sequence_counter < cycles
    /\ input' = [input EXCEPT !.pc = 0,
                              !.mux_state.sequence_counter = @ + 1,
                              !.a = FALSE, !.b = FALSE,
                              !.reads = NoReads, !.failed = {}]
    /\ hist' = [hist EXCEPT !.cycle_start = input.mux_state]
    /\ UNCHANGED <<mux_input, intensity, at_id, logic, mixer, queue, writer,
                   reader, audio_freq_counter, audio_max_ticks>>
    /\ PureIdle

\* a settle delay is over: the lines set before the next await
InputTimer ==
    /\ CoreAFree
    /\ input.pc \in TimerAt
    /\ input' = [input EXCEPT !.pc = @ + 1,
                              !.a = IF input.pc = 5 THEN TRUE
                                    ELSE IF input.pc = 11 THEN FALSE ELSE @,
                              !.b = IF input.pc = 5 THEN FALSE
                                    ELSE IF input.pc = 11 THEN TRUE ELSE @]
    /\ UNCHANGED <<mux_input, intensity, at_id, logic, mixer, queue, writer,
                   reader, audio_freq_counter, audio_max_ticks, hist>>
    /\ PureIdle

\* a conversion is over: Ok(level) with level in levels[ch] or, if canFail,
\* Err; then the code up to the next await; after the read of Z that is
\* mux_snd.send(mux_state.clone()).
InputRead(levels, canFail) ==
    /\ CoreAFree
    /\ input.pc \in DOMAIN ReadAt
    /\ LET ch == ReadAt[input.pc] IN
       \E res \in {Some(l) : l \in levels[ch]} \cup (IF canFail THEN {None} ELSE {}) :
         LET ms == read_result(input.mux_state, ch, res)
         IN  /\ input' = [input EXCEPT
                   !.pc = @ + 1,
                   !.mux_state = ms,
                   !.probe = IF input.pc \in {2, 8} THEN TRUE
                             ELSE IF input.pc \in {4, 10} THEN FALSE ELSE @,
                   !.a = IF input.pc = 13 THEN TRUE ELSE @,
                   !.b = IF input.pc = 13 THEN TRUE ELSE @,
                   !.reads[ch] = res,
                   !.failed = IF IsSome(res) THEN @ ELSE @ \cup {ch}]
             /\ IF input.pc = 15
                THEN /\ mux_input' = watch_send(mux_input, ms)
                     /\ hist' = Published(hist, "mux", ms, MuxReaders)
                ELSE UNCHANGED <<mux_input, hist>>
    /\ UNCHANGED <<intensity, at_id, logic, mixer, queue, writer, reader,
                   audio_freq_counter, audio_max_ticks>>
    /\ PureIdle

(***************************************************************************)
(* logic_loop                                                              *)
(***************************************************************************)
MaxLogicTicks == 2

logic_pass_x_knob(int, h) ==
    LET got == watch_try_get(mux_input, at_id["logic"])
        h1 == [Polled(h, "logic", got, "mux") EXCEPT
                  !.logic = [ticked |-> TRUE, fresh |-> h.fresh["logic"],
                             before |-> int.data,
                             sent |-> IF IsSome(got) THEN Some(got[1].x_knob)
                                      ELSE None],
                  !.origin = IF IsSome(got) THEN got[1].sequence_counter ELSE @]
    IN  IF IsSome(got)
        THEN [int |-> watch_send(int, got[1].x_knob),
              h |-> Published(h1, "intensity", got[1].x_knob, IntensityReaders)]
        ELSE [int |-> int, h |-> h1]

\* one pass of the loop body on the cells as they are
logic_pass(int, h) ==
    LET got == watch_try_get(mux_input, at_id["logic"])
        h1 == [Polled(h, "logic", got, "mux") EXCEPT
                  !.logic = [ticked |-> TRUE, fresh |-> h.fresh["logic"],
                             before |-> int.data,
                             sent |-> IF IsSome(got) THEN Some(got[1].main_knob)
                                      ELSE None],
                  !.origin = IF IsSome(got) THEN got[1].sequence_counter ELSE @]
    IN  IF IsSome(got)
        THEN [int |-> watch_send(int, got[1].main_knob),
              h |-> Published(h1, "intensity", got[1].main_knob, IntensityReaders)]
        ELSE [int |-> int, h |-> h1]

\* from the start of the task to its first ticker.next()
LogicStart ==
    /\ CoreAFree
    /\ logic.pc = "spawned"
    /\ LET r == logic_pass(watch_send(intensity, new(0, FALSE)),
                           Published(hist, "intensity", new(0, FALSE),
                                     IntensityReaders))
       IN  /\ intensity' = r.int
           /\ hist' = r.h
    /\ at_id' = [at_id EXCEPT !["logic"] = watch_seen(mux_input, @)]
    /\ logic' = [pc |-> "ticker", ticks |-> 0]
    /\ UNCHANGED <<input, mux_input, mixer, queue, writer, reader,
                   audio_freq_counter, audio_max_ticks>>
    /\ PureIdle

LogicTick ==
    /\ CoreAFree
    /\ logic.pc = "ticker"
    /\ logic.ticks < MaxLogicTicks
    /\ LET r == logic_pass(intensity, hist)
       IN  /\ intensity' = r.int
           /\ hist' = r.h
    /\ at_id' = [at_id EXCEPT !["logic"] = watch_seen(mux_input, @)]
    /\ logic' = [logic EXCEPT !.ticks = @ + 1]
    /\ UNCHANGED <<input, mux_input, mixer, queue, writer, reader,
                   audio_freq_counter, audio_max_ticks>>
    /\ PureIdle

(***************************************************************************)
(* update_leds_loop and periodic_stats: their polls of the cells.          *)
(***************************************************************************)
Reader0 == [leds |-> "spawned", stats |-> "spawned", current_audio_counter |-> 0]

LedsTick ==
    /\ CoreAFree
    /\ hist' = Polled(hist, "leds", watch_try_get(intensity, at_id["leds"]),
                      "intensity")
    /\ at_id' = [at_id EXCEPT !["leds"] = watch_seen(intensity, @)]
    /\ reader' = [reader EXCEPT !.leds = "ticker"]
    /\ UNCHANGED <<input, mux_input, intensity, logic, mixer, queue, writer,
                   audio_freq_counter, audio_max_ticks>>
    /\ PureIdle

StatsTick ==
    /\ CoreAFree
    /\ hist' = Polled(hist, "stats", watch_try_get(mux_input, at_id["stats"]),
                      "mux")
    /\ at_id' = [at_id EXCEPT !["stats"] = watch_seen(mux_input, @)]
    /\ reader' = [reader EXCEPT !.stats = "ticker",
                                !.current_audio_counter = audio_freq_counter]
    /\ UNCHANGED <<input, mux_input, intensity, logic, mixer, queue, writer,
                   audio_freq_counter, audio_max_ticks>>
    /\ PureIdle

(***************************************************************************)
(* mixer_loop.  pc: "spawned" before its first poll, "run" inside the      *)
(* loop, "send" suspended in AUDIO_OUT_SAMPLES.send with the pair pending, *)
(* "panicked" after the unwrap() of a failed decode.  bad gives, for each   *)
(* asset, the chunks the decoder cannot decode (none in the card's assets). *)
(***************************************************************************)
MaxTicks == 5
\* passes of mixer_loop run by SpecRamp: more than a period of the ramp
MaxRampTicks == 260
PipeBlocks == 2
LIGHT_OFFSET == 0
MEDIUM_OFFSET == 277
HEAVY_OFFSET == 691

Mixer0 ==
    [pc |-> "spawned",
     light |-> adpcm_to_stream(asset_data(1, PipeBlocks * BLOCK_SIZE), LIGHT_OFFSET),
     medium |-> adpcm_to_stream(asset_data(2, PipeBlocks * BLOCK_SIZE), MEDIUM_OFFSET),
     heavy |-> adpcm_to_stream(asset_data(3, PipeBlocks * BLOCK_SIZE), HEAVY_OFFSET),
     saw_value |-> 0, pending |-> None, ticks |-> 0,
     bad |-> [light |-> {}, medium |-> {}, heavy |-> {}]]

\* the blocks (counted from 0 along the cycled asset) that the n-th pass of
\* mixer_loop makes a stream started at offset decode: the first pass every
\* block up to the one holding sample number offset, a later pass the block
\* that sample number offset + n - 1 opens, if it opens one
tick_decodes(offset, n) ==
    IF n = 1 THEN 0..(offset \div SamplesPerBlock)
    ELSE IF (offset + n - 1) % SamplesPerBlock = 0
         THEN {(offset + n - 1) \div SamplesPerBlock} ELSE {}

\* the n-th pass of mixer_loop has a block to decode that does not decode
TickFails(n) ==
    \/ \E b \in tick_decodes(LIGHT_OFFSET, n) :
          ((b % PipeBlocks) + 1) \in mixer.bad.light
    \/ \E b \in tick_decodes(MEDIUM_OFFSET, n) :
          ((b % PipeBlocks) + 1) \in mixer.bad.medium
    \/ \E b \in tick_decodes(HEAVY_OFFSET, n) :
          ((b % PipeBlocks) + 1) \in mixer.bad.heavy

\* a pass of the loop would hit a block that does not decode
MixerPanics ==
    \/ unwrap_panics(mixer.light, mixer.bad.light)
    \/ unwrap_panics(mixer.medium, mixer.bad.medium)
    \/ unwrap_panics(mixer.heavy, mixer.bad.heavy)

\* a pass of the loop in which a decode fails: the panic ends the task (and
\* the core's executor) before the pass has built its pair
MixerPanic ==
    /\ mixer.pc \in {"spawned", "run"}
    /\ mixer.ticks < MaxTicks
    /\ MixerPanics
    /\ mixer' = [mixer EXCEPT !.pc = "panicked"]
    /\ UNCHANGED <<input, mux_input, intensity, at_id, logic, queue, writer,
                   reader, audio_freq_counter, audio_max_ticks, hist>>
    /\ PureIdle

\* one pass of the loop: from its top to the send; at most ticks passes are
\* run, and keep says whether the history lists the pairs sent.  The
\* history's ramp lists the saw_value of every pass.
MixerTick(ticks, keep) ==
    /\ mixer.pc \in {"spawned", "run"}
    /\ mixer.ticks < ticks
    /\ ~MixerPanics
    /\ LET ls == stream_next(mixer.light)
           ms == stream_next(mixer.medium)
           hs == stream_next(mixer.heavy)
           l == downsample(stream_value(ls))
           m == downsample(stream_value(ms))
           h == downsample(stream_value(hs))
           got == watch_try_get(intensity, at_id["mixer"])
           out == mixed(l, m, h, got)
           saw == next_saw(mixer.saw_value)
           pair == DACSamplePair_new(to_output(out), saw)
           room == channel_has_room(queue)
           h1 == Polled(hist, "mixer", got, "intensity")
           h2 == [h1 EXCEPT !.mix = [ticked |-> TRUE, got |-> got,
                                     stale |-> ~hist.fresh["mixer"],
                                     before |-> hist.seen,
                                     l |-> l, m |-> m, h |-> h, out |-> out,
                                     pair |-> pair],
                            !.seen = IF IsSome(got) THEN got ELSE @,
                            !.ramp = Append(@, saw)]
       IN  /\ mixer' = [mixer EXCEPT !.pc = IF room THEN "run" ELSE "send",
                                     !.light = ls, !.medium = ms, !.heavy = hs,
                                     !.saw_value = saw,
                                     !.pending = IF room THEN None ELSE Some(pair),
                                     !.ticks = @ + 1]
           /\ queue' = IF room THEN channel_push(queue, pair) ELSE queue
           /\ hist' = IF room /\ keep THEN [h2 EXCEPT !.sent = Append(@, pair)]
                      ELSE h2
    /\ at_id' = [at_id EXCEPT !["mixer"] = watch_seen(intensity, @)]
    /\ UNCHANGED <<input, mux_input, intensity, logic, writer, reader,
                   audio_freq_counter, audio_max_ticks>>
    /\ PureIdle

\* the suspended send completes once the channel has room
MixerResume(keep) ==
    /\ mixer.pc = "send"
    /\ channel_has_room(queue)
    /\ queue' = channel_push(queue, mixer.pending[1])
    /\ hist' = IF keep THEN [hist EXCEPT !.sent = Append(@, mixer.pending[1])]
               ELSE hist
    /\ mixer' = [mixer EXCEPT !.pc = "run", !.pending = None]
    /\ UNCHANGED <<input, mux_input, intensity, at_id, logic, writer, reader,
                   audio_freq_counter, audio_max_ticks>>
    /\ PureIdle

(***************************************************************************)
(* sample_write_loop (Core B).  pc: "ticker" suspended in ticker.next()    *)
(* (or not started yet), "receive" suspended in                            *)
(* AUDIO_OUT_SAMPLES.receive().                                            *)
(***************************************************************************)
\* passes of the loop run by SpecWriter: a second of audio and a few more
MaxPasses == 48002
\* a pass's duration in timer ticks, as Instant measures it: 1 MHz / 48 kHz
PassTicks == 21

Writer0 ==
    [pc |-> "ticker", local_counter |-> 0, local_max_ticks |-> 0,
     dac_sample_pair |-> None, cs |-> TRUE, bus |-> << >>]

freq_counter_store_every_tick(local_counter, shared) == local_counter

\* if local_counter % 16 == 0 { AUDIO_FREQ_COUNTER.store(local_counter) }
freq_counter_store(local_counter, shared) ==
    IF local_counter % 16 = 0 THEN local_counter ELSE shared

\* from the top of the loop to the receive
WriterBegin ==
    /\ writer.pc = "ticker"
    /\ writer' = [writer EXCEPT !.pc = "receive", !.local_counter = @ + 1]
    /\ audio_freq_counter' =
         freq_counter_store(writer.local_counter + 1, audio_freq_counter)
    /\ UNCHANGED <<input, mux_input, intensity, at_id, logic, mixer, queue,
                   reader, audio_max_ticks, hist>>
    /\ PureIdle

\* word.to_be_bytes()
to_be_bytes(word) == << word \div 256, word % 256 >>

\* what the loop does to the chip-select pin and the SPI bus
CsSet(level) == [op |-> "cs", level |-> level, bytes |-> << >>, ok |-> TRUE]
SpiWrite(bytes, ok) == [op |-> "write", level |-> FALSE, bytes |-> bytes, ok |-> ok]

spi_pass_abort_on_error(pair, ok1, ok2) ==
    IF ~ok1 THEN << CsSet(FALSE), SpiWrite(to_be_bytes(pair.audio1), ok1) >>
    ELSE << CsSet(FALSE), SpiWrite(to_be_bytes(pair.audio1), ok1), CsSet(TRUE),
            CsSet(FALSE), SpiWrite(to_be_bytes(pair.audio2), ok2), CsSet(TRUE) >>

spi_pass_one_frame(pair, ok1, ok2) ==
    << CsSet(FALSE), SpiWrite(to_be_bytes(pair.audio1), ok1), CsSet(FALSE),
       CsSet(FALSE), SpiWrite(to_be_bytes(pair.audio2), ok2), CsSet(TRUE) >>

\* cs.set_low(); spi.blocking_write(..).unwrap_or_else(error!); cs.set_high()
\* for audio1 and then for audio2; ok1 and ok2 say whether the writes were Ok
spi_pass(pair, ok1, ok2) ==
    << CsSet(FALSE), SpiWrite(to_be_bytes(pair.audio1), ok1), CsSet(TRUE),
       CsSet(FALSE), SpiWrite(to_be_bytes(pair.audio2), ok2), CsSet(TRUE) >>

\* the level the chip-select pin is left at
cs_after(bus, cs) ==
    IF \E i \in 1..Len(bus) : bus[i].op = "cs"
    THEN bus[CHOOSE i \in 1..Len(bus) :
                /\ bus[i].op = "cs"
                /\ \A j \in (i + 1)..Len(bus) : bus[j].op # "cs"].level
    ELSE cs

max_ticks_store_each(local_max, shared_max, diff, local_counter) ==
    [local |-> diff, shared |-> diff]

\* if diff > local_max_ticks { AUDIO_MAX_TICKS.fetch_max(diff); local = diff }
\* if local_counter % 48000 == 0 { local = 0; AUDIO_MAX_TICKS.store(0) }
max_ticks_update(local_max, shared_max, diff, local_counter) ==
    LET l1 == IF diff > local_max THEN diff ELSE local_max
        s1 == IF diff > local_max /\ diff > shared_max THEN diff ELSE shared_max
    IN  IF local_counter % 48000 = 0
        THEN [local |-> 0, shared |-> 0]
        ELSE [local |-> l1, shared |-> s1]

\* history of the last pass: its duration, whether its writes were Ok, the
\* greatest duration since the last reset and since the start, the passes
\* so far with a failed write
Passed(h, diff, ok1, ok2, local_counter) ==
    [h EXCEPT !.out = [ticked |-> TRUE, diff |-> diff, ok1 |-> ok1, ok2 |-> ok2,
                       since_reset |-> IF local_counter % 48000 = 0 THEN 0
                                       ELSE IF diff > @.since_reset THEN diff
                                       ELSE @.since_reset,
                       peak |-> IF diff > @.peak THEN diff ELSE @.peak,
                       failed_passes |-> IF ok1 /\ ok2 THEN @.failed_passes
                                         ELSE @.failed_passes + 1]]

\* the receive gives a pair; the two words go out; the duration diff of the
\* pass (one of durations) is put to the maximum; on to ticker.next().
\* keep says whether the history lists the pair as received.
WriterReceive(durations, canFail, keep) ==
    /\ writer.pc = "receive"
    /\ Len(queue) > 0
    /\ \E diff \in durations, ok1, ok2 \in (IF canFail THEN BOOLEAN ELSE {TRUE}) :
         LET got == channel_pop(queue)
             bus == spi_pass(got.item, ok1, ok2)
             mx == max_ticks_update(writer.local_max_ticks, audio_max_ticks,
                                    diff, writer.local_counter)
             h1 == Passed(hist, diff, ok1, ok2, writer.local_counter)
         IN  /\ queue' = got.rest
             /\ writer' = [writer EXCEPT !.pc = "ticker",
                                         !.dac_sample_pair = Some(got.item),
                                         !.bus = bus,
                                         !.cs = cs_after(bus, @),
                                         !.local_max_ticks = mx.local]
             /\ audio_max_ticks' = mx.shared
             /\ hist' = IF keep THEN [h1 EXCEPT !.received = Append(@, got.item)]
                        ELSE h1
    /\ UNCHANGED <<input, mux_input, intensity, at_id, logic, mixer, reader,
                   audio_freq_counter>>
    /\ PureIdle

\* a pair sent by mixer_loop arrives in the channel (the mixer left out)
ChannelFed(passes) ==
    /\ channel_has_room(queue)
    /\ writer.local_counter + Len(queue)
         - (IF writer.pc = "receive" THEN 1 ELSE 0) < passes
    /\ queue' = channel_push(queue, DACSamplePair_new(0, 0))
    /\ UNCHANGED <<input, mux_input, intensity, at_id, logic, mixer, writer,
                   reader, audio_freq_counter, audio_max_ticks, hist>>
    /\ PureIdle

(***************************************************************************)
(* The tasks as SpecLive runs them, without end: of every task its awaits, *)
(* what completes them and what it sends.  So that a behaviour can go on   *)
(* for ever in finitely many states, no pass is counted and no history is  *)
(* kept, sequence_counter (wrapping_add in the code) and the cells' send   *)
(* counts wrap at LiveWrap, the ADC gives one level per channel, and the   *)
(* mixer and the output loop move one fixed pair: the streams, the ramp,   *)
(* the pass counters and the DAC writes, none of which decides whether a   *)
(* task suspends or resumes, are left out.                                 *)
(***************************************************************************)
LiveWrap == 2

\* sender.send(val), the send count wrapping
watch_send_wrapping(w, val) ==
    [data |-> Some(val), current_id |-> (w.current_id + 1) % LiveWrap]

InputCycleStartLive ==
    /\ CoreAFree
    /\ input.pc = 16
    /\ input' = [input EXCEPT !.pc = 0,
                              !.mux_state.sequence_counter = (@ + 1) % LiveWrap,
                              !.a = FALSE, !.b = FALSE,
                              !.reads = NoReads, !.failed = {}]
    /\ UNCHANGED <<mux_input, intensity, at_id, logic, mixer, queue, writer,
                   reader, audio_freq_counter, audio_max_ticks, hist>>
    /\ PureIdle

InputReadLive(levels) ==
    /\ CoreAFree
    /\ input.pc \in DOMAIN ReadAt
    /\ LET ch == ReadAt[input.pc] IN
       \E res \in {Some(l) : l \in levels[ch]} :
         LET ms == read_result(input.mux_state, ch, res)
         IN  /\ input' = [input EXCEPT
                   !.pc = @ + 1,
                   !.mux_state = ms,
                   !.probe = IF input.pc \in {2, 8} THEN TRUE
                             ELSE IF input.pc \in {4, 10} THEN FALSE ELSE @,
                   !.a = IF input.pc = 13 THEN TRUE ELSE @,
                   !.b = IF input.pc = 13 THEN TRUE ELSE @,
                   !.reads[ch] = res]
             /\ mux_input' = IF input.pc = 15 THEN watch_send_wrapping(mux_input, ms)
                             ELSE mux_input
    /\ UNCHANGED <<intensity, at_id, logic, mixer, queue, writer, reader,
                   audio_freq_counter, audio_max_ticks, hist>>
    /\ PureIdle

\* one pass of logic_loop's body on the cells as they are
logic_pass_live(int) ==
    LET got == watch_try_get(mux_input, at_id["logic"])
    IN  IF IsSome(got) THEN watch_send_wrapping(int, got[1].main_knob) ELSE int

LogicStartLive ==
    /\ CoreAFree
    /\ logic.pc = "spawned"
    /\ intensity' = logic_pass_live(watch_send_wrapping(intensity, new(0, FALSE)))
    /\ logic' = [logic EXCEPT !.pc = "ticker"]
    /\ UNCHANGED <<input, mux_input, at_id, mixer, queue, writer, reader,
                   audio_freq_counter, audio_max_ticks, hist>>
    /\ PureIdle

LogicTickLive ==
    /\ CoreAFree
    /\ logic.pc = "ticker"
    /\ intensity' = logic_pass_live(intensity)
    /\ UNCHANGED <<input, mux_input, at_id, logic, mixer, queue, writer, reader,
                   audio_freq_counter, audio_max_ticks, hist>>
    /\ PureIdle

\* one pass of mixer_loop: from its top to the send
MixerTickLive ==
    /\ mixer.pc \in {"spawned", "run"}
    /\ LET pair == DACSamplePair_new(0, 0)
           room == channel_has_room(queue)
       IN  /\ mixer' = [mixer EXCEPT !.pc = IF room THEN "run" ELSE "send",
                                     !.pending = IF room THEN None ELSE Some(pair)]
           /\ queue' = IF room THEN channel_push(queue, pair) ELSE queue
    /\ UNCHANGED <<input, mux_input, intensity, at_id, logic, writer, reader,
                   audio_freq_counter, audio_max_ticks, hist>>
    /\ PureIdle

MixerResumeLive ==
    /\ mixer.pc = "send"
    /\ channel_has_room(queue)
    /\ queue' = channel_push(queue, mixer.pending[1])
    /\ mixer' = [mixer EXCEPT !.pc = "run", !.pending = None]
    /\ UNCHANGED <<input, mux_input, intensity, at_id, logic, writer, reader,
                   audio_freq_counter, audio_max_ticks, hist>>
    /\ PureIdle

WriterBeginLive ==
    /\ writer.pc = "ticker"
    /\ writer' = [writer EXCEPT !.pc = "receive"]
    /\ UNCHANGED <<input, mux_input, intensity, at_id, logic, mixer, queue,
                   reader, audio_freq_counter, audio_max_ticks, hist>>
    /\ PureIdle

WriterReceiveLive ==
    /\ writer.pc = "receive"
    /\ Len(queue) > 0
    /\ queue' = channel_pop(queue).rest
    /\ writer' = [writer EXCEPT !.pc = "ticker",
                                !.dac_sample_pair = Some(channel_pop(queue).item)]
    /\ UNCHANGED <<input, mux_input, intensity, at_id, logic, mixer, reader,
                   audio_freq_counter, audio_max_ticks, hist>>
    /\ PureIdle

(***************************************************************************)
(* Values of the variables a specification does not use.                   *)
(***************************************************************************)
IdleSig == [phase |-> "idle", op |-> "none", x |-> 0, y |-> 0, inv |-> FALSE,
            self |-> new(0, FALSE), res |-> new(0, FALSE), pair |-> NoPair]
IdleMix == [phase |-> "idle", l |-> 0, m |-> 0, h |-> 0, got |-> None,
            out |-> new(0, FALSE), word |-> 0]
IdleStream == [phase |-> "idle", nblocks |-> 0, trailing |-> 0, offset |-> 0,
               st |-> adpcm_to_stream(<< >>, 0), out |-> << >>]

(***************************************************************************)
(* SpecSignal: the inputs are drawn in Init, one action per function       *)
(* applies it.                                                             *)
(***************************************************************************)
MaxFactor == 2

U16Args == 0..(2 * OFFSET - 1) \cup {4096, 5000, 8000, 65535}
NewArgs == MIN..MAX \cup {-5000, 5000}
SmallArgs == {MIN, -123, 0, 123, 240, MAX, 5000}
Factors == (-MaxFactor)..MaxFactor
DacArgs == {0, 8, 2040, 2047, 2048, 4095, 4096, 36864, 61447, 65535}

SigInput(op, x, y, inv) ==
    [phase |-> "in", op |-> op, x |-> x, y |-> y, inv |-> inv,
     self |-> new(0, FALSE), res |-> new(0, FALSE), pair |-> NoPair]

SigDone(self, res) ==
    sig' = [sig EXCEPT !.phase = "out", !.self = self, !.res = res]

OthersIdle ==
    UNCHANGED <<input, mux_input, intensity, at_id, logic, mixer, queue,
                writer, reader, audio_freq_counter, audio_max_ticks, hist>>

SigNew ==
    /\ sig.phase = "in" /\ sig.op = "new"
    /\ SigDone(new(sig.x, sig.inv), new(sig.x, sig.inv))
    /\ UNCHANGED <<mixin, strm>> /\ OthersIdle

SigFromU16 ==
    /\ sig.phase = "in" /\ sig.op = "from_u16"
    /\ SigDone(from_u16(sig.x, sig.inv), from_u16(sig.x, sig.inv))
    /\ UNCHANGED <<mixin, strm>> /\ OthersIdle

\* self = new(x, inv); self.update(y)
SigUpdate ==
    /\ sig.phase = "in" /\ sig.op = "update"
    /\ SigDone(new(sig.x, sig.inv), update(new(sig.x, sig.inv), sig.y))
    /\ UNCHANGED <<mixin, strm>> /\ OthersIdle

\* from_u16(x, false) - new(y, false)
SigSub ==
    /\ sig.phase = "in" /\ sig.op = "sub"
    /\ SigDone(from_u16(sig.x, FALSE),
               sub(from_u16(sig.x, FALSE), new(sig.y, FALSE)))
    /\ UNCHANGED <<mixin, strm>> /\ OthersIdle

\* new(x, false) * new(y, false)
SigMul ==
    /\ sig.phase = "in" /\ sig.op = "mul"
    /\ SigDone(new(sig.x, FALSE), mul(new(sig.x, FALSE), new(sig.y, FALSE)))
    /\ UNCHANGED <<mixin, strm>> /\ OthersIdle

\* new(x, false) * y
SigMulI32 ==
    /\ sig.phase = "in" /\ sig.op = "mul_i32"
    /\ SigDone(new(sig.x, FALSE), mul_i32(new(sig.x, FALSE), sig.y))
    /\ UNCHANGED <<mixin, strm>> /\ OthersIdle

\* new(x, false) / y
SigDivI32 ==
    /\ sig.phase = "in" /\ sig.op = "div_i32"
    /\ SigDone(new(sig.x, FALSE), div_i32(new(sig.x, FALSE), sig.y))
    /\ UNCHANGED <<mixin, strm>> /\ OthersIdle

\* DACSamplePair::new(x, y)
SigDacNew ==
    /\ sig.phase = "in" /\ sig.op = "dac_new"
    /\ sig' = [sig EXCEPT !.phase = "out", !.pair = DACSamplePair_new(sig.x, sig.y)]
    /\ UNCHANGED <<mixin, strm>> /\ OthersIdle

(***************************************************************************)
(* SpecOps: the value type's functions applied one after another, at most  *)
(* MaxOps of them.  sig.res is the value in hand, sig.self a value put     *)
(* aside earlier (the right operand of sub and mul), sig.x the number of   *)
(* functions applied.  An operation whose result leaves i32 is not taken.  *)
(***************************************************************************)
MaxOps == 5

I32_MAX == 2147483647
I32_MIN == -I32_MAX - 1

OpsArgs == {MIN, -1, 7, MAX}
OpsReadings == {0, 3000, 4095}

OpsStart ==
    [phase |-> "ops", op |-> "none", x |-> 0, y |-> 0, inv |-> FALSE,
     self |-> new(CENTER, FALSE), res |-> new(CENTER, FALSE), pair |-> NoPair]

\* a - b stays in i32
sub_fits(a, b) ==
    IF b >= 0 THEN a >= I32_MIN + b ELSE a <= I32_MAX + b

\* (a * b) << ACCUM_BITS stays in i32
mul_fits(a, b) ==
    IF a = 0 \/ b = 0 THEN TRUE
    ELSE Abs(a) <= (I32_MAX \div Pow2(ACCUM_BITS)) \div Abs(b)

OpsDone(op, arg, inv, res) ==
    sig' = [sig EXCEPT !.op = op, !.x = @ + 1, !.y = arg, !.inv = inv,
                       !.res = res]

OpsReady == sig.phase = "ops" /\ sig.x < MaxOps

OpsNew ==
    /\ OpsReady
    /\ \E v \in OpsArgs, b \in BOOLEAN : OpsDone("new", v, b, new(v, b))
    /\ UNCHANGED <<mixin, strm>> /\ OthersIdle

OpsFromU16 ==
    /\ OpsReady
    /\ \E r \in OpsReadings, b \in BOOLEAN :
          OpsDone("from_u16", r, b, from_u16(r, b))
    /\ UNCHANGED <<mixin, strm>> /\ OthersIdle

OpsUpdate ==
    /\ OpsReady
    /\ \E r \in OpsReadings : OpsDone("update", r, sig.inv, update(sig.res, r))
    /\ UNCHANGED <<mixin, strm>> /\ OthersIdle

\* the value in hand is put aside (the type is Copy)
OpsKeep ==
    /\ OpsReady
    /\ sig' = [sig EXCEPT !.op = "keep", !.x = @ + 1, !.self = sig.res]
    /\ UNCHANGED <<mixin, strm>> /\ OthersIdle

OpsSub ==
    /\ OpsReady
    /\ sub_fits(sig.res.accumulated_raw, sig.self.accumulated_raw)
    /\ OpsDone("sub", 0, sig.inv, sub(sig.res, sig.self))
    /\ UNCHANGED <<mixin, strm>> /\ OthersIdle

OpsMul ==
    /\ OpsReady
    /\ mul_fits(shr(sig.res.accumulated_raw, ACCUM_BITS),
                shr(sig.self.accumulated_raw, ACCUM_BITS))
    /\ OpsDone("mul", 0, sig.inv, mul(sig.res, sig.self))
    /\ UNCHANGED <<mixin, strm>> /\ OthersIdle

OpsMulI32 ==
    /\ OpsReady
    /\ \E k \in Factors :
          /\ mul_fits(shr(sig.res.accumulated_raw, ACCUM_BITS), k)
          /\ OpsDone("mul_i32", k, sig.inv, mul_i32(sig.res, k))
    /\ UNCHANGED <<mixin, strm>> /\ OthersIdle

OpsDivI32 ==
    /\ OpsReady
    /\ \E k \in Factors \ {0} :
          OpsDone("div_i32", k, sig.inv, div_i32(sig.res, k))
    /\ UNCHANGED <<mixin, strm>> /\ OthersIdle

(***************************************************************************)
(* SpecMix: three 16-bit stream samples and what try_get gave, drawn in    *)
(* Init; MixApply is the body of one mixer tick up to the DAC word.        *)
(***************************************************************************)
Pcm16Args == {-32768, -32752, -16000, -1, 0, 15, 16, 16000, 32751, 32767}
IntensityArgs == {MIN, MIN + 1, -1000, -1, 0, 1, 1000, MAX - 1, MAX}

MixInputs ==
    {[phase |-> "in", l |-> l, m |-> m, h |-> h, got |-> g,
      out |-> new(0, FALSE), word |-> 0] :
        l \in Pcm16Args, m \in Pcm16Args, h \in Pcm16Args,
        g \in {None} \cup {Some(new(i, FALSE)) : i \in IntensityArgs}}

MixApply ==
    /\ mixin.phase = "in"
    /\ LET out == mixed(downsample(mixin.l), downsample(mixin.m),
                        downsample(mixin.h), mixin.got)
       IN  mixin' = [mixin EXCEPT !.phase = "out", !.out = out,
                                  !.word = to_output(out)]
    /\ UNCHANGED <<sig, strm>> /\ OthersIdle

(***************************************************************************)
(* SpecStream: one stream over an asset of nblocks full blocks and some    *)
(* trailing bytes, started at an offset, pulled sample by sample.          *)
(***************************************************************************)
MaxBlocks == 3
MaxOffset == 4
MaxPulled == 24

StreamInputs ==
    {[phase |-> "run", nblocks |-> b, trailing |-> t, offset |-> o,
      st |-> adpcm_to_stream(asset_data(1, b * BLOCK_SIZE + t), o),
      out |-> << >>] :
        b \in 1..MaxBlocks, t \in 0..(BLOCK_SIZE - 1), o \in 0..MaxOffset}

StreamPull ==
    /\ strm.phase = "run"
    /\ Len(strm.out) < MaxPulled
    /\ LET st == stream_next(strm.st)
       IN  strm' = [strm EXCEPT !.st = st,
                                !.out = Append(strm.out, stream_value(st))]
    /\ UNCHANGED <<sig, mixin>> /\ OthersIdle

(***************************************************************************)
(* The specifications.                                                     *)
(***************************************************************************)
PipeIdle ==
    /\ input = Input0
    /\ mux_input = Watch_new
    /\ intensity = Watch_new
    /\ at_id = [r \in Readers |-> 0]
    /\ logic = [pc |-> "spawned", ticks |-> 0]
    /\ mixer = Mixer0
    /\ queue = << >>
    /\ writer = Writer0
    /\ reader = Reader0
    /\ audio_freq_counter = 0
    /\ audio_max_ticks = 0
    /\ hist = Hist0

InitSignal ==
    /\ \/ \E v \in NewArgs, b \in BOOLEAN : sig = SigInput("new", v, 0, b)
       \/ \E r \in U16Args, b \in BOOLEAN : sig = SigInput("from_u16", r, 0, b)
       \/ \E v \in {0, 123}, r \in U16Args, b \in BOOLEAN :
            sig = SigInput("update", v, r, b)
       \/ \E r \in {0, 2048, 4095}, v \in SmallArgs :
            sig = SigInput("sub", r, v, FALSE)
       \/ \E v \in SmallArgs, w \in SmallArgs : sig = SigInput("mul", v, w, FALSE)
       \/ \E v \in NewArgs, k \in Factors : sig = SigInput("mul_i32", v, k, FALSE)
       \/ \E v \in NewArgs, k \in Factors \ {0} :
            sig = SigInput("div_i32", v, k, FALSE)
       \/ \E v \in U16Args, w \in DacArgs : sig = SigInput("dac_new", v, w, FALSE)
    /\ mixin = IdleMix /\ strm = IdleStream /\ PipeIdle
NextSignal ==
    \/ SigNew \/ SigFromU16 \/ SigUpdate \/ SigSub \/ SigMul \/ SigMulI32
    \/ SigDivI32 \/ SigDacNew
SpecSignal == InitSignal /\ [][NextSignal]_vars

InitOps == sig = OpsStart /\ mixin = IdleMix /\ strm = IdleStream /\ PipeIdle
NextOps ==
    \/ OpsNew \/ OpsFromU16 \/ OpsUpdate \/ OpsKeep \/ OpsSub \/ OpsMul
    \/ OpsMulI32 \/ OpsDivI32
SpecOps == InitOps /\ [][NextOps]_vars

InitMix == sig = IdleSig /\ mixin \in MixInputs /\ strm = IdleStream /\ PipeIdle
NextMix == MixApply
SpecMix == InitMix /\ [][NextMix]_vars

InitStream == sig = IdleSig /\ mixin = IdleMix /\ strm \in StreamInputs /\ PipeIdle
NextStream == StreamPull
SpecStream == InitStream /\ [][NextStream]_vars

\* ADC levels the conversions may give, per channel
MuxLevels ==
    [c \in Channels |->
        CASE c = "main" -> {0, 2048}
          [] c = "x" -> {100, 2048}
          [] c = "y" -> {2048, 4000}
          [] c = "cv1_raw" -> {0, 3000}
          [] c = "z" -> {999, 1000, 3000, 3001, 3500}
          [] OTHER -> {0}]

PipeLevels ==
    [c \in Channels |->
        CASE c = "main" -> {100, 4095}
          [] c = "z" -> {3500}
          [] OTHER -> {2048}]

ChainLevels ==
    [c \in Channels |->
        CASE c = "main" -> {4095}
          [] c = "z" -> {3500}
          [] OTHER -> {2048}]

Init == sig = IdleSig /\ mixin = IdleMix /\ strm = IdleStream /\ PipeIdle

NextMux == InputCycleStart(MaxCycles) \/ InputTimer \/ InputRead(MuxLevels, TRUE)
SpecMux == Init /\ [][NextMux]_vars

\* the tasks that publish to and poll the Watch cells, before Core B's
\* first pop
NextWatch ==
    \/ InputCycleStart(PipeCycles) \/ InputTimer \/ InputRead(PipeLevels, FALSE)
    \/ LogicStart \/ LogicTick
    \/ LedsTick \/ StatsTick
    \/ MixerTick(MaxTicks, TRUE)
SpecWatch == Init /\ [][NextWatch]_vars

\* input_loop with the two tasks that poll MUX_INPUT
NextSnap ==
    \/ InputCycleStart(MaxCycles) \/ InputTimer \/ InputRead(PipeLevels, FALSE)
    \/ LogicStart \/ LogicTick
    \/ StatsTick
SpecSnap == Init /\ [][NextSnap]_vars

\* the chain from input_loop over logic_loop to mixer_loop, with the
\* output loop that lets the mixer go on
NextChain ==
    \/ InputCycleStart(MaxCycles) \/ InputTimer \/ InputRead(ChainLevels, FALSE)
    \/ LogicStart \/ LogicTick
    \/ MixerTick(MaxTicks, TRUE) \/ MixerResume(TRUE)
    \/ WriterBegin \/ WriterReceive({PassTicks}, FALSE, TRUE)
SpecChain == Init /\ [][NextChain]_vars

\* the audio path and what feeds it
Next ==
    \/ InputCycleStart(PipeCycles) \/ InputTimer \/ InputRead(PipeLevels, FALSE)
    \/ LogicStart \/ LogicTick
    \/ MixerTick(MaxTicks, TRUE) \/ MixerResume(TRUE)
    \/ WriterBegin \/ WriterReceive({PassTicks}, FALSE, TRUE)
Spec == Init /\ [][Next]_vars

\* mixer_loop and sample_write_loop, the writes to the DAC failing or not
NextOut ==
    \/ MixerTick(MaxTicks, TRUE) \/ MixerResume(TRUE)
    \/ WriterBegin \/ WriterReceive({PassTicks, PassTicks + 4}, TRUE, TRUE)
SpecOut == Init /\ [][NextOut]_vars

\* the audio path with assets in which some blocks do not decode
BadBlocks ==
    {[light |-> a, medium |-> b, heavy |-> c] :
        a \in SUBSET (1..PipeBlocks), b \in SUBSET (1..PipeBlocks),
        c \in SUBSET (1..PipeBlocks)}
InitFatal ==
    /\ sig = IdleSig /\ mixin = IdleMix /\ strm = IdleStream
    /\ input = Input0
    /\ mux_input = Watch_new
    /\ intensity = Watch_new
    /\ at_id = [r \in Readers |-> 0]
    /\ logic = [pc |-> "spawned", ticks |-> 0]
    /\ mixer \in {[Mixer0 EXCEPT !.bad = b] : b \in BadBlocks}
    /\ queue = << >>
    /\ writer = Writer0
    /\ reader = Reader0
    /\ audio_freq_counter = 0
    /\ audio_max_ticks = 0
    /\ hist = Hist0
NextFatal ==
    \/ LogicStart \/ LogicTick
    \/ MixerTick(MaxTicks, TRUE) \/ MixerPanic \/ MixerResume(TRUE)
    \/ WriterBegin \/ WriterReceive({PassTicks}, FALSE, TRUE)
SpecFatal == InitFatal /\ [][NextFatal]_vars

\* the audio path over more than a period of the ramp on the second
\* channel, logic_loop publishing its first intensity on the way
NextRamp ==
    \/ LogicStart \/ LogicTick
    \/ MixerTick(MaxRampTicks, FALSE) \/ MixerResume(FALSE)
    \/ WriterBegin \/ WriterReceive({PassTicks}, FALSE, FALSE)
SpecRamp == Init /\ [][NextRamp]_vars

\* the tasks running without end.  Core B runs sample_write_loop alone, and
\* on Core A the mixer goes on whenever it can, so their steps are taken if
\* they stay possible (WF); the executor polls every task that is ready
\* each time the mixer suspends, so a step of input_loop or logic_loop that
\* is possible again and again is taken (SF).
NextLive ==
    \/ InputCycleStartLive \/ InputTimer \/ InputReadLive(ChainLevels)
    \/ LogicStartLive \/ LogicTickLive
    \/ MixerTickLive \/ MixerResumeLive
    \/ WriterBeginLive \/ WriterReceiveLive
SpecLive ==
    /\ Init /\ [][NextLive]_vars
    /\ WF_vars(MixerTickLive) /\ WF_vars(MixerResumeLive)
    /\ WF_vars(WriterBeginLive) /\ WF_vars(WriterReceiveLive)
    /\ SF_vars(InputCycleStartLive) /\ SF_vars(InputTimer)
    /\ SF_vars(InputReadLive(ChainLevels))
    /\ SF_vars(LogicStartLive) /\ SF_vars(LogicTickLive)

\* sample_write_loop over more than a second of passes, fed by ChannelFed
NextWriter ==
    \/ ChannelFed(MaxPasses)
    \/ WriterBegin \/ WriterReceive({PassTicks, PassTicks + 4}, FALSE, FALSE)
SpecWriter == Init /\ [][NextWriter]_vars

(***************************************************************************)
(* The properties checked.                                                 *)
(***************************************************************************)

\* C1: what sample_write_loop has received from AUDIO_OUT_SAMPLES, followed
\* by what the channel still holds, is exactly what mixer_loop has sent, in
\* the order sent: the pairs received are a prefix of the pairs sent, each
\* received once, none dropped, duplicated, reordered or overwritten.
ThmC1_FifoPrefix ==
    /\ hist.sent = hist.received \o queue
    /\ Len(hist.received) <= Len(hist.sent)
    /\ \A n \in 1..Len(hist.received) : hist.received[n] = hist.sent[n]

WitC1_ReceivedAfterBackpressure ==
    /\ Len(hist.received) >= 3
    /\ Len(queue) = QueueCap
    /\ hist.received[1] # hist.received[2]
    /\ hist.received[2] # hist.received[3]

\* C2: the channel never holds more than its capacity; a pair the mixer
\* could not push stays pending outside the channel with the mixer
\* suspended in send, and the mixer is suspended whenever it has built more
\* than capacity pairs beyond those popped (so capacity+1 pairs without a
\* pop leave it blocked until a pop); no pair is received that was not sent,
\* so a pop on the empty channel waits for a push.
ThmC2_BoundedBlocking ==
    /\ Len(queue) <= QueueCap
    /\ mixer.pc = "send" =>
         /\ IsSome(mixer.pending)
         /\ Len(hist.sent) = mixer.ticks - 1
    /\ mixer.pc # "send" => Len(hist.sent) = mixer.ticks
    /\ mixer.ticks - Len(hist.received) > QueueCap => mixer.pc = "send"
    /\ Len(hist.received) <= Len(hist.sent)
    /\ (writer.pc = "receive" /\ Len(queue) = 0) =>
         Len(hist.received) = writer.local_counter - 1

WitC2_BlockedWhenFull ==
    /\ mixer.pc = "send"
    /\ Len(queue) = QueueCap
    /\ mixer.ticks = Len(hist.received) + QueueCap + 1
    /\ Len(hist.received) >= 1

\* C3 as stated: a poll gives a value exactly when one was published since
\* the same receiver's poll before it, and nothing otherwise.
CexC3_OncePerPublish ==
    \A r \in Readers :
        hist.poll[r].polled =>
            /\ hist.poll[r].fresh => (hist.poll[r].some /\ hist.poll[r].exact)
            /\ ~hist.poll[r].fresh => ~hist.poll[r].some

\* C3 as amended: every poll of every receiver (try_get) gives the value
\* last published to its cell, seen before or not, whatever the other
\* receivers have polled, and gives nothing only while nothing was ever
\* published; polling marks the value seen (at_id).
ThmC3_LatestOnEveryPoll ==
    \A r \in Readers :
        /\ hist.poll[r].polled => hist.poll[r].exact
        /\ at_id[r] <= (IF r \in MuxReaders THEN mux_input ELSE intensity).current_id

WitC3_SecondPollSameValue ==
    /\ hist.poll["leds"].polled /\ ~hist.poll["leds"].fresh
    /\ hist.poll["leds"].some /\ hist.poll["leds"].exact
    /\ hist.poll["mixer"].polled /\ hist.poll["mixer"].some
    /\ intensity.current_id >= 2

\* C4: with the intensity read on the tick equal to 0 the mix is the medium
\* sample exactly, with MAX it is the heavy sample exactly, with MIN it is
\* the light sample to within 2 counts (the rounding of the two scalings),
\* and the word sent agrees.
ThmC4_CrossfadeEnds ==
    (mixin.phase = "out" /\ IsSome(mixin.got)) =>
        LET i == to_clamped(mixin.got[1])
            l == downsample(mixin.l)
            m == downsample(mixin.m)
            h == downsample(mixin.h)
        IN  /\ i = 0 => (mixin.out = m /\ mixin.word = to_output(m))
            /\ i = MAX => (mixin.out = h /\ mixin.word = to_output(h))
            /\ i = MIN =>
                 /\ Abs(to_clamped(mixin.out) - to_clamped(l)) <= 2
                 /\ Abs(mixin.word - to_output(l)) <= 1

WitC4_MinGivesLight ==
    /\ mixin.phase = "out" /\ IsSome(mixin.got)
    /\ to_clamped(mixin.got[1]) = MIN
    /\ mixin.l = 16000 /\ mixin.m = -16000 /\ mixin.h = 0
    /\ to_clamped(mixin.out) = 1000

ThmC6_FromU16Clamped ==
    (sig.phase = "out" /\ sig.op = "from_u16" /\ ~sig.inv) =>
        LET c == to_clamped(sig.res) IN
        /\ c \in MIN..MAX
        /\ sig.x \in 0..4095 => c = sig.x - 2048
        /\ sig.x >= 1 => to_clamped(from_u16(sig.x - 1, FALSE)) <= c
        /\ sig.x > 4095 => c = 2047
        /\ sig.x = 0 => c = -2048
        /\ sig.x = 2048 => c = 0
        /\ sig.x = 4095 => c = 2047

WitC6_AboveRangeSaturates ==
    /\ sig.phase = "out" /\ sig.op = "from_u16" /\ ~sig.inv
    /\ sig.x = 5000
    /\ to_clamped(sig.res) = 2047

\* C7: for every value built, to_output() is (to_clamped() + 2048) >> 1 and
\* lies in [0, 2047]; from_u16 of 0 gives 0, of 2048 gives 1024, of 4095 and
\* of anything above gives 2047; from_u16(0) - new(5000) gives 0.
ThmC7_ToOutput ==
    sig.phase = "out" =>
        LET o == to_output(sig.res) IN
        /\ o = (to_clamped(sig.res) + 2048) \div 2
        /\ o \in 0..2047
        /\ (sig.op = "from_u16" /\ ~sig.inv) =>
             /\ sig.x = 0 => o = 0
             /\ sig.x = 2 => o = 1
             /\ sig.x = 1024 => o = 512
             /\ sig.x = 2048 => o = 1024
             /\ sig.x >= 4095 => o = 2047
        /\ (sig.op = "sub" /\ sig.x = 0 /\ sig.y = 5000) => o = 0

WitC7_BelowRangeGivesZero ==
    /\ sig.phase = "out" /\ sig.op = "sub" /\ sig.x = 0 /\ sig.y = 5000
    /\ sig.res.accumulated_raw < shl(MIN, ACCUM_BITS)
    /\ to_output(sig.res) = 0

\* C8: for s = new(v, false) with v in [-2048, 2047]: s * 0 is new(0, false),
\* s * 1 is s, s * -1 is new(-v, false), s * k is new(v * k, false);
\* s / 1 is s and s / -1 is new(-v, false).
ThmC8_MulDivByInteger ==
    (sig.phase = "out" /\ sig.x \in MIN..MAX) =>
        /\ sig.op = "mul_i32" =>
             /\ sig.self = new(sig.x, FALSE)
             /\ sig.y = 0 => sig.res = new(0, FALSE)
             /\ sig.y = 1 => sig.res = sig.self
             /\ sig.y = -1 => sig.res = new(-sig.x, FALSE)
             /\ sig.res = new(sig.x * sig.y, FALSE)
        /\ sig.op = "div_i32" =>
             /\ sig.y = 1 => sig.res = sig.self
             /\ sig.y = -1 => sig.res = new(-sig.x, FALSE)

WitC8_MinusOneNegates ==
    /\ sig.phase = "out" /\ sig.op = "mul_i32"
    /\ sig.x = 123 /\ sig.y = -1
    /\ sig.res = new(-123, FALSE)

\* C9: a stream over nblocks full blocks (any trailing bytes ignored) gives
\* a sample on every pull, and the sample at position n + nblocks *
\* SamplesPerBlock is the sample at position n, from any starting offset.
ThmC9_StreamPeriodic ==
    strm.phase = "run" =>
        LET period == strm.nblocks * SamplesPerBlock IN
        /\ Len(strm.st.chunks) = strm.nblocks
        /\ \A n \in 1..Len(strm.out) :
              /\ strm.out[n] \in -32768..32767
              /\ n + period <= Len(strm.out) => strm.out[n + period] = strm.out[n]

WitC9_SecondPass ==
    /\ strm.phase = "run"
    /\ strm.nblocks = 2 /\ strm.trailing > 0 /\ strm.offset > 0
    /\ Len(strm.out) >= 2 * strm.nblocks * SamplesPerBlock
    /\ strm.out[1] # strm.out[2]
    /\ strm.out[1] # strm.out[1 + SamplesPerBlock]

\* C10: after a pass of input_loop in which every conversion succeeded, the
\* aggregate published is the loop's mux_state, each knob's clamped value is
\* its reading - 2048, and the switch is Momentary below 1000, On above 3000
\* and Off otherwise; readings 2048, 2048, 2048 and 3500 give three knobs
\* equal to new(0, false) and the switch On.
ThmC10_CycleAggregate ==
    (input.pc = 16 /\ input.mux_state.sequence_counter >= 1 /\ input.failed = {}) =>
        /\ IsSome(mux_input.data)
        /\ LET ms == mux_input.data[1]
               main == input.reads["main"][1]
               x == input.reads["x"][1]
               y == input.reads["y"][1]
               z == input.reads["z"][1]
           IN  /\ ms = input.mux_state
               /\ to_clamped(ms.main_knob) = main - 2048
               /\ to_clamped(ms.x_knob) = x - 2048
               /\ to_clamped(ms.y_knob) = y - 2048
               /\ ms.zswitch = (IF z < 1000 THEN "Momentary"
                                ELSE IF z > 3000 THEN "On" ELSE "Off")
               /\ (main = 2048 /\ x = 2048 /\ y = 2048 /\ z = 3500) =>
                    /\ ms.main_knob = new(0, FALSE)
                    /\ ms.x_knob = new(0, FALSE)
                    /\ ms.y_knob = new(0, FALSE)
                    /\ ms.zswitch = "On"

WitC10_CentredKnobsSwitchOn ==
    /\ input.pc = 16 /\ input.mux_state.sequence_counter = 2
    /\ input.failed = {}
    /\ input.reads["main"] = Some(2048) /\ input.reads["x"] = Some(2048)
    /\ input.reads["y"] = Some(2048) /\ input.reads["z"] = Some(3500)
    /\ input.reads["cv1_raw"] = Some(0) /\ input.reads["cv1_probe"] = Some(0)
    /\ input.reads["cv2_raw"] = Some(0) /\ input.reads["cv2_probe"] = Some(0)
    /\ mux_input.data[1].zswitch = "On"
    /\ mux_input.data[1].sequence_counter = 2

\* C11: at the end of a pass of input_loop, whichever conversions failed:
\* every conversion of the pass was attempted; a sub-field whose conversion
\* failed has the value it had when the pass began; every other sub-field
\* is the one its own reading gives (a knob's clamped value is its reading
\* - 2048); and the pass has published its aggregate, the only publish of
\* the pass.
ThmC11_StaleOnError ==
    (input.pc = 16 /\ input.mux_state.sequence_counter >= 1) =>
        /\ \A ch \in Channels : IsSome(input.reads[ch]) = (ch \notin input.failed)
        /\ \A ch \in input.failed :
              mux_field(input.mux_state, ch) = mux_field(hist.cycle_start, ch)
        /\ \A ch \in Channels \ input.failed :
              /\ mux_field(input.mux_state, ch) =
                   mux_field(apply_reading(hist.cycle_start, ch, input.reads[ch][1]), ch)
              /\ ch \in {"main", "x", "y"} =>
                   to_clamped(mux_field(input.mux_state, ch)) =
                       input.reads[ch][1] - 2048
        /\ mux_input.data = Some(input.mux_state)
        /\ mux_input.current_id = input.mux_state.sequence_counter

WitC11_OneFailureKeepsOldValue ==
    /\ input.pc = 16 /\ input.mux_state.sequence_counter = 2
    /\ input.failed = {"x"}
    /\ input.mux_state.x_knob = hist.cycle_start.x_knob
    /\ to_clamped(input.mux_state.x_knob) = 100 - 2048
    /\ hist.cycle_start.main_knob # input.mux_state.main_knob
    /\ input.reads["z"] = Some(3500) /\ input.mux_state.zswitch = "On"
    /\ mux_input.current_id = 2

\* C12: an aggregate a receiver of MUX_INPUT obtained is one input_loop
\* published at the end of a pass, of a pass that was over when the receiver
\* polled; the aggregate of a pass still in progress is not among the
\* published ones, so no receiver obtains it.
ThmC12_CompleteSnapshot ==
    /\ \A r \in MuxReaders :
          IsSome(hist.got_mux[r]) =>
              /\ hist.got_mux[r][1] \in hist.published
              /\ hist.got_mux[r][1].sequence_counter \in 1..mux_input.current_id
    /\ input.pc # 16 =>
          /\ input.mux_state \notin hist.published
          /\ input.mux_state.sequence_counter = mux_input.current_id + 1
    /\ \A ms \in hist.published : ms.sequence_counter \in 1..mux_input.current_id

WitC12_PollDuringSecondPass ==
    /\ hist.during["logic"] /\ IsSome(hist.got_mux["logic"])
    /\ hist.during["stats"] /\ IsSome(hist.got_mux["stats"])
    /\ input.pc = 8 /\ input.mux_state.sequence_counter = 2
    /\ hist.got_mux["logic"][1].sequence_counter = 1
    /\ hist.got_mux["logic"][1].main_knob # input.mux_state.main_knob
    /\ hist.got_mux["stats"] = hist.got_mux["logic"]

\* C13: for 16-bit inputs x and y, DACSamplePair::new(x, y) gives 16-bit
\* words whose low 12 bits are the low 12 bits of x and of y and whose top 4
\* bits are 0b0001 (audio1) and 0b1001 (audio2), whatever the inputs' upper
\* bits; for x in [0, 2047] and y a ramp value the 12-bit field is the
\* input itself.
ThmC13_DacCodewords ==
    (sig.phase = "out" /\ sig.op = "dac_new") =>
        /\ sig.pair.audio1 \in 0..65535 /\ sig.pair.audio2 \in 0..65535
        /\ sig.pair.audio1 % 4096 = sig.x % 4096
        /\ sig.pair.audio2 % 4096 = sig.y % 4096
        /\ sig.pair.audio1 \div 4096 = 1
        /\ sig.pair.audio2 \div 4096 = 9
        /\ sig.x \in 0..2047 => sig.pair.audio1 = 4096 + sig.x
        /\ sig.y \in 0..2047 => sig.pair.audio2 = 36864 + sig.y

WitC13_UpperBitsDropped ==
    /\ sig.phase = "out" /\ sig.op = "dac_new"
    /\ sig.x = 65535 /\ sig.y = 61447
    /\ sig.pair = [audio1 |-> 8191, audio2 |-> 36871]

\* C14: input_loop moves from each await to the next one in source order,
\* whatever the conversions give; the conversions attempted in a pass are
\* always a prefix of Main, CV1 raw, CV1 probe, X, CV2 raw, CV2 probe, Y,
\* Switch, each read with its mux select lines; sequence_counter goes up by 1
\* at the top of each pass and nowhere else; MUX_INPUT is sent to once per
\* pass, after the read of the switch, and the aggregate sent carries the
\* sequence number of the one sent before plus 1.
ThmC14_FixedCycle ==
    /\ [](LET order == <<"main", "cv1_raw", "cv1_probe", "x",
                         "cv2_raw", "cv2_probe", "y", "z">>
              attempted == {ch \in Channels : IsSome(input.reads[ch])}
                               \cup input.failed
          IN  /\ \E k \in 0..8 : attempted = {order[i] : i \in 1..k}
              /\ input.pc \in {1, 2, 4} => (~input.a /\ ~input.b)
              /\ input.pc \in {7, 8, 10} => (input.a /\ ~input.b)
              /\ input.pc = 13 => (~input.a /\ input.b)
              /\ input.pc = 15 => (input.a /\ input.b)
              /\ input.pc \in {3, 4, 9, 10} <=> input.probe
              /\ mux_input.current_id =
                   input.mux_state.sequence_counter
                     - (IF input.pc = 16 THEN 0 ELSE 1))
    /\ [][/\ input' # input => input'.pc = (input.pc + 1) % 17
          /\ input'.mux_state.sequence_counter =
               input.mux_state.sequence_counter
                 + (IF input.pc = 16 /\ input'.pc = 0 THEN 1 ELSE 0)
          /\ mux_input' # mux_input <=> (input.pc = 15 /\ input'.pc = 16)
          /\ mux_input' # mux_input =>
               /\ mux_input'.current_id = mux_input.current_id + 1
               /\ mux_input'.data = Some(input'.mux_state)
               /\ mux_input'.data[1].sequence_counter =
                    (IF IsSome(mux_input.data)
                     THEN mux_input.data[1].sequence_counter ELSE 0) + 1]_vars

WitC14_SecondPublish ==
    /\ input.pc = 16
    /\ mux_input.current_id = 2
    /\ mux_input.data[1].sequence_counter = 2
    /\ input.failed = {"main", "z"}
    /\ IsSome(input.reads["y"])

\* C15 as stated: a pass of logic_loop sends only what it read on that pass,
\* and on a pass with no aggregate published since the pass before it sends
\* nothing.
CexC15_SilentWithoutNewAggregate ==
    hist.logic.ticked =>
        /\ IsSome(hist.logic.sent) =>
              /\ IsSome(hist.got_mux["logic"])
              /\ hist.logic.sent[1] = hist.got_mux["logic"][1].main_knob
        /\ ~hist.logic.fresh => ~IsSome(hist.logic.sent)

\* C15 as amended: a pass of logic_loop sends the main knob of the aggregate
\* its poll gave, and nothing else; on a pass with no aggregate published
\* since the pass before, it sends again the main knob of the latest
\* aggregate, which is the value INTENSITY already holds; it sends nothing
\* only while no aggregate was ever published.
ThmC15_PassThrough ==
    hist.logic.ticked =>
        /\ IsSome(hist.logic.sent) = IsSome(hist.got_mux["logic"])
        /\ IsSome(hist.logic.sent) =>
              /\ hist.logic.sent[1] = hist.got_mux["logic"][1].main_knob
              /\ intensity.data = hist.logic.sent
        /\ (~hist.logic.fresh /\ IsSome(hist.logic.sent)) =>
              hist.logic.sent = hist.logic.before
        /\ ~IsSome(hist.logic.sent) =>
              /\ hist.poll["logic"].exact
              /\ intensity.data = hist.logic.before
              /\ intensity.data = Some(new(0, FALSE))

WitC15_SendsAgain ==
    /\ hist.logic.ticked /\ ~hist.logic.fresh
    /\ IsSome(hist.logic.sent)
    /\ hist.logic.sent = hist.logic.before
    /\ hist.logic.sent # Some(new(0, FALSE))
    /\ intensity.current_id >= 3

\* C16 as stated: the sequence numbers of the aggregates one receiver
\* obtains go strictly up from one obtained aggregate to the next, and the
\* aggregate behind an intensity the mixer obtains is no older than the one
\* behind the intensity it obtained before.
CexC16_StrictlyIncreasing ==
    /\ \A r \in MuxReaders :
          IsSome(hist.seqs[r].prev) => hist.seqs[r].last[1] > hist.seqs[r].prev[1]
    /\ IsSome(hist.origins.prev) => hist.origins.last[1] >= hist.origins.prev[1]

\* C16 as amended: what a receiver obtains is the value last published when
\* it polls, so the sequence numbers of the aggregates one receiver obtains
\* never go down (they stay the same when it polls again before the next
\* publish, and may skip numbers), and the aggregate behind an intensity the
\* mixer obtains is no older than the one behind the intensity it obtained
\* before.
ThmC16_NeverOlder ==
    /\ \A r \in MuxReaders :
          /\ IsSome(hist.seqs[r].prev) =>
                hist.seqs[r].last[1] >= hist.seqs[r].prev[1]
          /\ IsSome(hist.seqs[r].last) =>
                hist.seqs[r].last[1] \in 1..mux_input.current_id
          /\ hist.poll[r].polled => hist.poll[r].exact
    /\ IsSome(hist.origins.prev) => hist.origins.last[1] >= hist.origins.prev[1]
    /\ IsSome(hist.origins.last) =>
          hist.origins.last[1] \in 0..hist.origin
    /\ hist.origin \in 0..mux_input.current_id
    /\ hist.poll["mixer"].polled => hist.poll["mixer"].exact

WitC16_MixerSkipsOne ==
    /\ hist.seqs["logic"] = [prev |-> Some(1), last |-> Some(2)]
    /\ hist.origins = [prev |-> Some(0), last |-> Some(2)]
    /\ hist.mix.ticked /\ mixer.ticks > QueueCap + 1

\* C17 as stated: on no pass of mixer_loop, the first included, do all
\* three streams decode a block.
CexC17_NeverAllThree ==
    mixer.ticks >= 1 =>
        ~(mixer.light.decodes >= 1 /\ mixer.medium.decodes >= 1
            /\ mixer.heavy.decodes >= 1)

\* C17 as amended: on the first pass of mixer_loop all three streams decode
\* (each has to decode the block its first sample is in); on every later
\* pass a stream decodes exactly when its cursor, its offset plus the
\* samples taken, enters a new block, and not all three do.
ThmC17_NotAllThreeAfterFirst ==
    /\ mixer.ticks = 1 =>
          (mixer.light.decodes >= 1 /\ mixer.medium.decodes >= 1
             /\ mixer.heavy.decodes >= 1)
    /\ mixer.ticks >= 2 =>
          /\ ~(mixer.light.decodes >= 1 /\ mixer.medium.decodes >= 1
                 /\ mixer.heavy.decodes >= 1)
          /\ mixer.light.decodes =
               (IF (0 + mixer.ticks - 1) % SamplesPerBlock = 0 THEN 1 ELSE 0)
          /\ mixer.medium.decodes =
               (IF (277 + mixer.ticks - 1) % SamplesPerBlock = 0 THEN 1 ELSE 0)
          /\ mixer.heavy.decodes =
               (IF (691 + mixer.ticks - 1) % SamplesPerBlock = 0 THEN 1 ELSE 0)

WitC17_OneStreamDecodes ==
    /\ mixer.ticks >= 2
    /\ mixer.light.decodes = 1
    /\ mixer.medium.decodes = 0 /\ mixer.heavy.decodes = 0
    /\ mixer.light.pos = 1

\* C18: AUDIO_MAX_TICKS is the greatest duration of a pass of
\* sample_write_loop since the last reset, the resetting pass not counted;
\* it is 0 after every pass whose count is a multiple of 48000; it goes
\* down only in such a pass, and then to 0; in any other pass it becomes
\* the greater of its value and the pass's duration.
ThmC18_MaxTicksRolling ==
    /\ [](/\ audio_max_ticks = hist.out.since_reset
          /\ writer.local_max_ticks = audio_max_ticks
          /\ (writer.pc = "ticker" /\ writer.local_counter > 0
                /\ writer.local_counter % 48000 = 0) => audio_max_ticks = 0)
    /\ [][/\ audio_max_ticks' < audio_max_ticks =>
               /\ audio_max_ticks' = 0
               /\ writer.pc = "receive" /\ writer'.pc = "ticker"
               /\ writer.local_counter % 48000 = 0
          /\ (writer.pc = "receive" /\ writer'.pc = "ticker"
                /\ writer.local_counter % 48000 # 0) =>
               audio_max_ticks' =
                   (IF hist'.out.diff > audio_max_ticks
                    THEN hist'.out.diff ELSE audio_max_ticks)]_vars

WitC18_MaxAfterReset ==
    /\ writer.pc = "ticker" /\ writer.local_counter = 48001
    /\ audio_max_ticks = PassTicks
    /\ hist.out.peak = PassTicks + 4
    /\ hist.out.diff = PassTicks

\* C19: AUDIO_FREQ_COUNTER is a multiple of 16, is at most the loop's
\* local_counter and is less than 16 behind it; it changes only in a pass
\* whose count is a multiple of 16, to that count, and so never goes down.
ThmC19_FreqCounterEvery16 ==
    /\ [](/\ audio_freq_counter % 16 = 0
          /\ audio_freq_counter <= writer.local_counter
          /\ writer.local_counter - audio_freq_counter < 16
          /\ audio_freq_counter = 16 * (writer.local_counter \div 16))
    /\ [][/\ audio_freq_counter' >= audio_freq_counter
          /\ audio_freq_counter' # audio_freq_counter =>
               /\ writer'.local_counter % 16 = 0
               /\ audio_freq_counter' = writer'.local_counter
               /\ writer.pc = "ticker" /\ writer'.pc = "receive"]_vars

WitC19_SecondStore ==
    /\ audio_freq_counter = 32
    /\ writer.local_counter = 47
    /\ writer.pc = "receive"

\* C20: after a pass of sample_write_loop, whether its writes to the DAC
\* failed or not: the bus saw chip-select low, the first word, chip-select
\* high, chip-select low, the second word, chip-select high, each word
\* once; chip-select is left high; the pass's duration went into
\* AUDIO_MAX_TICKS; the loop waits in ticker.next(); and the pair of pass n
\* is the n-th pair the mixer sent, so a pair is never sent to the DAC again.
ThmC20_NoRetry ==
    /\ [](hist.out.ticked =>
            /\ IsSome(writer.dac_sample_pair)
            /\ writer.bus =
                 << CsSet(FALSE),
                    SpiWrite(to_be_bytes(writer.dac_sample_pair[1].audio1),
                             hist.out.ok1),
                    CsSet(TRUE),
                    CsSet(FALSE),
                    SpiWrite(to_be_bytes(writer.dac_sample_pair[1].audio2),
                             hist.out.ok2),
                    CsSet(TRUE) >>
            /\ writer.cs
            /\ audio_max_ticks >= hist.out.diff
            /\ audio_max_ticks = hist.out.peak
            /\ Len(hist.received) =
                 writer.local_counter - (IF writer.pc = "receive" THEN 1 ELSE 0)
            /\ writer.dac_sample_pair[1] = hist.sent[Len(hist.received)]
            /\ \A n \in 1..(Len(hist.received) - 1) :
                  hist.received[n] # hist.received[n + 1])
    /\ [][(writer.pc = "receive" /\ writer' # writer) =>
             (writer'.pc = "ticker" /\ hist'.out.ticked
                /\ writer'.local_counter = writer.local_counter)]_vars

WitC20_FailedWritesThenNextPair ==
    /\ hist.out.ticked /\ ~hist.out.ok1 /\ hist.out.ok2
    /\ hist.out.failed_passes = 2
    /\ writer.pc = "ticker" /\ writer.local_counter = 2
    /\ writer.dac_sample_pair = Some(hist.sent[2])
    /\ hist.sent[2] # hist.sent[1]
    /\ writer.bus[5].bytes = to_be_bytes(hist.sent[2].audio2)
    /\ writer.cs


\* C21: a pass of mixer_loop in which a stream has to decode a block the
\* decoder rejects ends in a panic before it has built or pushed a pair:
\* every pass completed so far decoded good blocks only, the pass that
\* would decode the first bad block pushes nothing, and from the panic on
\* the mixer never moves and nothing more is pushed (the queue only
\* shrinks by the output loop's pops); the pairs pushed before it are still
\* received in the order sent.
ThmC21_DecodeFailureFatal ==
    /\ [](/\ \A n \in 1..mixer.ticks : ~TickFails(n)
          /\ mixer.pc = "panicked" =>
               /\ TickFails(mixer.ticks + 1)
               /\ ~IsSome(mixer.pending)
               /\ Len(hist.sent) = mixer.ticks
          /\ Len(hist.sent) <= mixer.ticks
          /\ hist.sent = hist.received \o queue)
    /\ [][/\ (mixer' # mixer /\ mixer.pc \in {"spawned", "run"}
                /\ TickFails(mixer.ticks + 1)) =>
               /\ mixer'.pc = "panicked"
               /\ queue' = queue /\ hist'.sent = hist.sent
          /\ mixer.pc = "panicked" =>
               /\ mixer' = mixer /\ hist'.sent = hist.sent
               /\ intensity' = intensity
               /\ (queue' = queue \/ queue' = Tail(queue))]_vars

WitC21_PanicAfterThreePairs ==
    /\ mixer.pc = "panicked"
    /\ mixer.bad = [light |-> {2}, medium |-> {}, heavy |-> {}]
    /\ mixer.ticks = SamplesPerBlock
    /\ Len(hist.sent) = SamplesPerBlock
    /\ hist.received = hist.sent /\ queue = << >>
    /\ writer.pc = "receive"

\* C22: the saw_value of the n-th pass of mixer_loop is 8 * n modulo 2048,
\* whatever the intensity and the streams give: a multiple of 8 in
\* [0, 2040], 8 more than the pass before or 0 after 2040, the same as 256
\* passes before and as none of the 255 passes between; the pair built
\* carries it unchanged in the low 12 bits of its second word.
ThmC22_DiagnosticRamp ==
    /\ Len(hist.ramp) = mixer.ticks
    /\ hist.mix.ticked = (mixer.ticks >= 1)
    /\ hist.mix.ticked =>
          LET n == Len(hist.ramp) IN
          /\ hist.ramp[n] \in {8 * k : k \in 0..255}
          /\ hist.ramp[n] = (8 * n) % 2048
          /\ n > 1 => hist.ramp[n] = (IF hist.ramp[n - 1] = 2040 THEN 0
                                      ELSE hist.ramp[n - 1] + 8)
          /\ n > 256 => hist.ramp[n] = hist.ramp[n - 256]
          /\ \A k \in 1..255 : n > k => hist.ramp[n] # hist.ramp[n - k]
          /\ mixer.saw_value = hist.ramp[n]
          /\ hist.mix.pair.audio2 = CONFIG2 + mixer.saw_value
          /\ hist.mix.pair.audio2 % 4096 = mixer.saw_value
          /\ hist.mix.pair =
               DACSamplePair_new(to_output(hist.mix.out), mixer.saw_value)

WitC22_SecondPeriod ==
    /\ Len(hist.ramp) = 258
    /\ hist.ramp[1] = 8 /\ hist.ramp[255] = 2040
    /\ hist.ramp[256] = 0 /\ hist.ramp[257] = 8 /\ hist.ramp[258] = 16
    /\ hist.mix.got = Some(new(0, FALSE))
    /\ hist.mix.stale
    /\ hist.mix.pair.audio2 = CONFIG2 + 16
    /\ hist.mix.pair.audio1 # CONFIG1 + 1024

\* C23: a pass of sample_write_loop takes one pair off the channel and only
\* then drives the bus: chip-select low, the two bytes of audio1,
\* chip-select high, chip-select low, the two bytes of audio2, chip-select
\* high, and nothing else, so every write lies between a chip-select low
\* and the next chip-select high; the bus is not driven from the top of the
\* pass to the receive, and chip-select is high wherever the loop is
\* suspended (in receive or in ticker.next()).
ThmC23_FramedWords ==
    /\ [](/\ writer.pc \in {"ticker", "receive"}
          /\ writer.cs
          /\ ~hist.out.ticked => (writer.bus = << >> /\ hist.received = << >>)
          /\ hist.out.ticked =>
               /\ Len(writer.bus) = 6
               /\ {i \in 1..6 : writer.bus[i].op = "write"} = {2, 5}
               /\ \A i \in {2, 5} :
                     /\ writer.bus[i - 1] = CsSet(FALSE)
                     /\ writer.bus[i + 1] = CsSet(TRUE)
                     /\ Len(writer.bus[i].bytes) = 2
               /\ LET pair == hist.received[Len(hist.received)]
                      word(i) == 256 * writer.bus[i].bytes[1] + writer.bus[i].bytes[2]
                  IN  /\ word(2) = pair.audio1 /\ word(2) \div 4096 = 1
                      /\ word(5) = pair.audio2 /\ word(5) \div 4096 = 9)
    /\ [][/\ (writer.pc = "ticker" /\ writer' # writer) =>
               /\ writer'.pc = "receive"
               /\ writer'.bus = writer.bus /\ writer'.cs = writer.cs
               /\ hist'.received = hist.received
               /\ queue' = queue
          /\ (writer.pc = "receive" /\ writer' # writer) =>
               /\ writer'.pc = "ticker"
               /\ Len(queue) >= 1 /\ queue' = Tail(queue)
               /\ hist'.received = Append(hist.received, Head(queue))
               /\ writer'.bus[2].bytes = to_be_bytes(Head(queue).audio1)
               /\ writer'.bus[5].bytes = to_be_bytes(Head(queue).audio2)
          /\ writer' = writer =>
               (queue' = queue \/ \E p \in {queue'[Len(queue')]} :
                                      queue' = Append(queue, p))]_vars

WitC23_WaitsForQueueAfterTwoWords ==
    /\ writer.pc = "receive" /\ queue = << >>
    /\ writer.local_counter = 3 /\ Len(hist.received) = 2
    /\ writer.cs
    /\ writer.bus[2] = SpiWrite(to_be_bytes(hist.sent[2].audio1), TRUE)
    /\ writer.bus[5] = SpiWrite(to_be_bytes(hist.sent[2].audio2), FALSE)
    /\ hist.sent[2].audio2 = CONFIG2 + 16
    /\ writer.bus[2].bytes # writer.bus[5].bytes

\* C24 as stated: for self built with invert = true and a reading r in
\* [0, 4095], self.update(r) leaves the value from_u16(r, true) builds, whose
\* clamped value is the saturated negation of r - 2048.
CexC24_InvertedUpdateNegates ==
    (sig.phase = "out" /\ sig.op = "update" /\ sig.inv /\ sig.y \in 0..4095) =>
        /\ sig.res = from_u16(sig.y, TRUE)
        /\ to_clamped(sig.res) = clamp(-(sig.y - 2048), MIN, MAX)

\* C25: whatever functions of the value type were applied one after
\* another (new, from_u16, update, -, * by a value or an integer, / by an
\* integer, none leaving i32), the accumulator of the value in hand and of
\* the value put aside is a multiple of 2^4, so shifting it down by 4 bits
\* and up again gives it back; a value whose accumulator is in range is the
\* one new builds from its to_clamped(); and new(v, false).to_clamped() is v
\* for every v in [-2048, 2047].
ThmC25_MarginBitsZero ==
    sig.phase = "ops" =>
        /\ \A s \in {sig.res, sig.self} :
              /\ s.accumulated_raw % Pow2(ACCUM_BITS) = 0
              /\ shl(shr(s.accumulated_raw, ACCUM_BITS), ACCUM_BITS) =
                   s.accumulated_raw
              /\ s.accumulated_raw \in I32_MIN..I32_MAX
              /\ shr(s.accumulated_raw, ACCUM_BITS) \in MIN..MAX =>
                   new(to_clamped(s), FALSE).accumulated_raw = s.accumulated_raw
        /\ sig.x = 0 => \A v \in MIN..MAX : to_clamped(new(v, FALSE)) = v
        /\ (sig.op = "new" /\ ~sig.inv) => to_clamped(sig.res) = sig.y

WitC25_AfterFourOperations ==
    /\ sig.phase = "ops" /\ sig.x = 4 /\ sig.op = "div_i32" /\ sig.y = 2
    /\ sig.self = new(7, FALSE)
    /\ sig.res.accumulated_raw = 24 * 16
    /\ to_clamped(sig.res) = 24

\* C26 as stated: with both cores scheduled fairly and the output loop
\* popping again and again, input_loop publishes pass after pass and
\* logic_loop publishes intensity again and again.
CexC26_NeverStarved ==
    /\ []<>(input.pc = 0) /\ []<>(input.pc = 16)
    /\ []<>(mux_input.current_id = 0) /\ []<>(mux_input.current_id = 1)
    /\ []<>(intensity.current_id = 0) /\ []<>(intensity.current_id = 1)

\* C26 as amended: in every state the mixer can push (it is running, or
\* suspended in a send that now has room) or the queue holds a pair for the
\* output loop to pop, so the system never deadlocks; input_loop and
\* logic_loop take no step while the mixer is between suspensions; and if the
\* mixer finds the queue full again and again, so that it suspends again and
\* again, then input_loop publishes pass after pass and logic_loop publishes
\* intensity again and again.  While the mixer's pushes always find room,
\* no other task of Core A runs.
ThmC26_NotStarvedWhileQueueFills ==
    /\ [](/\ \/ mixer.pc \in {"spawned", "run"}
             \/ mixer.pc = "send" /\ channel_has_room(queue)
             \/ Len(queue) > 0
          /\ mixer.pc = "send" <=> IsSome(mixer.pending)
          /\ Len(queue) <= QueueCap)
    /\ [][(input' # input \/ logic' # logic \/ intensity' # intensity
             \/ mux_input' # mux_input) => mixer.pc # "run"]_vars
    /\ ([]<>(mixer.pc = "send")) =>
          /\ []<>(input.pc = 0) /\ []<>(input.pc = 16)
          /\ []<>(mux_input.current_id = 0) /\ []<>(mux_input.current_id = 1)
          /\ []<>(intensity.current_id = 0) /\ []<>(intensity.current_id = 1)

WitC26_PublishedWhileMixerSuspended ==
    /\ mixer.pc = "send" /\ Len(queue) = QueueCap
    /\ input.pc = 16 /\ input.mux_state.sequence_counter = 0
    /\ mux_input.data = Some(input.mux_state)
    /\ intensity.data = Some(new(MAX, FALSE))
    /\ logic.pc = "ticker"
    /\ writer.pc = "receive"

============================================================================
